---------------------------- MODULE Spec2Model ----------------------------
(***************************************************************************)
(* Model of daemon/core/nodes/network.py: the bridge networks of the       *)
(* emulator (CoreNetwork and its variants), their adjacency maps, the      *)
(* rate-limited ebtables commit queue (EbtablesQueue) with its worker      *)
(* thread, and per-interface traffic shaping (linkconfig).                 *)
(*                                                                         *)
(* Time is kept relative: instead of time.monotonic() values the model     *)
(* stores, for each timestamp, the time elapsed since it was taken, in     *)
(* units of 0.3 s, saturating one unit above the update rate (the code     *)
(* only ever compares an elapsed time with the rate).                      *)
(***************************************************************************)
EXTENDS Integers, Sequences, FiniteSets, TLC

\* ------------------------------------------------------------------ bounds
NumIfs == 2          \* interfaces that exist (CoreInterface objects)
MaxIfIndex == 3      \* attach stops when a network's index counter gets here
MaxCmds == 2         \* a chain build is not started with more leftover commands
MaxVal == 1          \* link options range over None and 0..MaxVal
MaxTaps == 2         \* GreTap devices a session creates
MaxWorkers == 3      \* updateloop threads a process starts
NumThreads == 2      \* session threads calling into the queue
MaxScript == 4       \* invocations of the up/down script that are recorded

\* ------------------------------------------------------- program constants
Rate == 1            \* EbtablesQueue.rate = 0.3 s, in units of 0.3 s

\* One wireless LAN and one switch, both built with start=True.
Nets == {"wlan", "switch"}
\* A point-to-point network and a control network, both built with
\* start=False, and a GRE tap bridge that is yet to be built.
MoreNets == {"ptp", "gre", "ctrl"}
AllNets == Nets \cup MoreNets
Ifs == 1..NumIfs
Threads == 1..NumThreads
\* the interfaces offered to the point-to-point network: one more
PtpIfs == 1..(NumIfs + 1)
\* the GreTap interface objects a GRE tap bridge can come to create
TapIds == (NumIfs + 2)..(NumIfs + 1 + MaxTaps)
AllIfs == PtpIfs \cup TapIds

NoNet == "none"
NoIdx == -1
None == -1           \* Python's None where a number may stand
NoTap == 0           \* GreTapBridge.gretap is None
NoCfg == [built |-> FALSE]
NoFile == [saved |-> FALSE]
NoShut == [state |-> "no", brfail |-> FALSE, had |-> FALSE, ebcmds |-> 0]
NoTime == -1         \* no timestamp kept / never committed
NoCall == [op |-> "none"]
NoSnap == [net |-> NoNet, if |-> 0, used |-> FALSE]

\* WlanNode.policy and SwitchNode.policy
policy(n) == IF n = "wlan" THEN "DROP" ELSE "ACCEPT"

VARIABLES
    up,           \* CoreNetwork.up
    netif,        \* CoreNetworkBase._netif: index -> interface
    ifindex,      \* CoreNetworkBase.ifindex: next free index
    netifi,       \* CoreInterface.netifi
    ifnet,        \* CoreInterface.net
    linked,       \* CoreNetworkBase._linked: interface -> interface -> bool
    hasChain,     \* CoreNetwork.has_ebtables_chain
    doupdateloop, \* EbtablesQueue.doupdateloop
    updatethread, \* EbtablesQueue.updatethread is set
    updatelock,   \* EbtablesQueue.updatelock: "free" or its holder
    cmds,         \* EbtablesQueue.cmds
    updates,      \* EbtablesQueue.updates
    lastTime,     \* EbtablesQueue.last_update_time, as elapsed time
    wpc,          \* the worker thread's position in updateloop
    widx,         \* the position of the worker's iterator over updates
    wnet,         \* the worker's loop variable wlan
    slept,        \* how long the worker has slept
    spc,          \* the session thread's position
    snet,         \* the network the session thread's call is on
    kchain,       \* kernel: the ebtables chains
    kjump,        \* kernel: FORWARD jump rules per bridge
    params,       \* CoreInterface._params
    hostcmds,     \* host commands issued by the latest linkconfig call
    calls,        \* history: the latest link/unlink calls, all on one network
                  \* and since its commit before them (two are kept)
    ncommit,      \* history: commits of that network since those calls (0..2)
    sinceCommit,  \* history: time since the network's latest atomic commit
    preAttach,    \* history: the latest attach and the maps as they were before
    kbridge,      \* kernel: the bridge of the network exists
    kmaster,      \* kernel: the bridge an interface is enslaved to
    session,      \* the network object has its session attribute
    ebtables_lock,\* the module's ebtables_lock: "free" or its holder
    afile,        \* the atomic file: the table --atomic-save wrote
    ifshut,       \* the interfaces shutdown() was called on
    shut,         \* history: the latest shutdown of each network
    lastAttach,   \* history: the latest PtpNet.attach call
    grebuilt,     \* GreTapBridge.__init__ has run
    gretap,       \* GreTapBridge.gretap
    tapsMade,     \* how many GreTap objects were created
    ktaps,        \* kernel: the gretap devices that exist
    lastAddr,     \* history: the latest addrconfig call
    ctrlcfg,      \* CtrlNet: hostid, assign_address, updown_script, serverintf
    oldbridge,    \* kernel: a bridge b.<id>.* of another session exists
    kaddr,        \* kernel: prefix indexes of the addresses on the bridge
    updown,       \* the invocations of the up/down script
    kuplink,      \* kernel: the server interface is enslaved to the bridge
    lastStart,    \* history: the latest CtrlNet.startup call
    registered,   \* history: startupdateloop called, stopupdateloop not since
    othernet,     \* interface -> netif.othernet
    kpeer,        \* kernel: interface -> the bridge its far veth end is in
    tickDue,      \* history: the dirty networks that were due when the
                  \* worker's current pass over self.updates began
    linkedlock,   \* network -> the holder of its _linked_lock, or "free"
    buildSnap,    \* wlan._linked as it was when buildcmds took the lock
    tpc,          \* session thread -> its position in start/stopupdateloop
    targ,         \* session thread -> the network it was called with
    tjoin,        \* session thread -> the Thread object it joins
    alive,        \* the updateloop threads that have not ended
    threadobj,    \* the Thread object self.updatethread refers to, or 0
    made,         \* how many updateloop threads were started
    built,        \* history: buildcmds has run for the network since startup
    lastCfg       \* history: the latest linkconfig call, whether it got the
                  \* cached values and left the cache as it was, and its
                  \* options when all are positive

adjVars == <<netif, ifindex, netifi, ifnet, linked>>
queueVars == <<doupdateloop, updatethread, updatelock, cmds, updates, lastTime>>
workerVars == <<wpc, widx, wnet, slept>>
sessVars == <<spc, snet>>
kernVars == <<kchain, kjump>>
cfgVars == <<params, hostcmds, lastCfg>>
histVars == <<calls, ncommit, sinceCommit, preAttach>>
brVars == <<kbridge, kmaster>>
greVars == <<grebuilt, gretap, tapsMade, ktaps, lastAddr>>
ctrlVars == <<ctrlcfg, oldbridge, kaddr, updown, kuplink, lastStart>>
shutVars == <<session, ebtables_lock, afile, ifshut, shut>>
vethVars == <<othernet, kpeer>>
baseExt == <<shutVars, greVars, ctrlVars, vethVars>>
coreExt == <<baseExt, registered>>
thrVars == <<tpc, targ, tjoin, alive, threadobj, made>>
lateVars == <<tickDue, linkedlock, buildSnap, thrVars, built, built>>
extVars == <<coreExt, lastAttach, lateVars>>
vars == <<up, adjVars, hasChain, queueVars, workerVars, sessVars, kernVars,
          cfgVars, histVars, brVars, extVars>>

\* ------------------------------------------------------------- adjacency

\* a dict with key k set to v
Put(f, k, v) == [x \in DOMAIN f \cup {k} |-> IF x = k THEN v ELSE f[x]]
\* a dict without key k
Del(f, k) == [x \in DOMAIN f \ {k} |-> f[x]]
EmptyDict == [x \in {} |-> TRUE]

Attached(n) == {netif[n][k] : k \in DOMAIN netif[n]}

\* linked(): self._netif[netif.netifi] != netif raises
CheckAttachedMut(n, i) == TRUE
CheckAttached(n, i) == netifi[i] \in DOMAIN netif[n] /\ netif[n][netifi[i]] = i

\* linked(): the value returned for (a, b); a missing entry reads as the
\* policy default
LinkedValue(L, pol, a, b) ==
    IF b \in DOMAIN L[a] THEN L[a][b] ELSE pol = "ACCEPT"

\* linked(): the map it leaves; a missing entry is filled in
LinkedMap(L, pol, a, b) ==
    IF b \in DOMAIN L[a] THEN L
    ELSE [L EXCEPT ![a] = Put(L[a], b, pol = "ACCEPT")]

\* link(): the map it leaves
LinkMap(L, pol, a, b) ==
    IF LinkedValue(L, pol, a, b) THEN LinkedMap(L, pol, a, b)
    ELSE [LinkedMap(L, pol, a, b) EXCEPT ![a][b] = TRUE]

\* link(): "if self.linked(netif1, netif2): return"
LinkChangedAlways(L, pol, a, b) == TRUE
LinkChanged(L, pol, a, b) == ~LinkedValue(L, pol, a, b)

\* unlink(): "if not self.linked(netif1, netif2): return"
UnlinkChanged(L, pol, a, b) == LinkedValue(L, pol, a, b)

\* unlink(): the map it leaves
UnlinkMapMut(L, pol, a, b) == LinkedMap(L, pol, a, b)
UnlinkMap(L, pol, a, b) ==
    IF ~LinkedValue(L, pol, a, b) THEN LinkedMap(L, pol, a, b)
    ELSE [LinkedMap(L, pol, a, b) EXCEPT ![a][b] = FALSE]

\* what every pair of attached interfaces reads as
Reads(L, pol) ==
    [p \in {q \in (DOMAIN L) \X (DOMAIN L) : q[1] # q[2]} |->
        LinkedValue(L, pol, p[1], p[2])]

\* history: a call starts; a commit since the earlier calls closes their window
LastCall == IF calls = <<>> THEN NoCall ELSE calls[Len(calls)]
CallNet == IF calls = <<>> THEN NoNet ELSE LastCall.net
InFlight == calls # <<>> /\ ~LastCall.ret
Started(c) ==
    LET old == IF ncommit >= 1 \/ CallNet # c.net THEN <<>> ELSE calls
    IN IF Len(old) = 2 THEN <<old[2], c>> ELSE Append(old, c)

\* history: an operation on network n that does not involve the interface
\* attached last ends its attach..detach window
Forget(n, keep) ==
    IF preAttach.net # n THEN preAttach
    ELSE IF preAttach.if \notin keep THEN NoSnap
    ELSE [preAttach EXCEPT !.used = (Cardinality(keep) > 1)]


\* ------------------------------------------------------------------ init

\* an interface whose cache holds no parameter: getparam() gives None
NoParams == [bw |-> None, delay |-> None, loss |-> None, duplicate |-> None,
             jitter |-> None, has_tbf |-> "None", has_netem |-> "None"]

\* The state after WlanNode(session) and SwitchNode(session) were built with
\* start=True (startup(), then ebq.startupdateloop(self); WlanNode.startup
\* also calls ebq.ebchange(self)), a PtpNet and a CtrlNet were built with
\* start=False, and the interfaces were created; the GreTapBridge is built
\* by GreNew, and linkconfig may be called with it before that, as with any
\* network that is not up.
Init ==
    /\ up = [n \in AllNets |-> n \in Nets]
    /\ netif = [n \in AllNets |-> EmptyDict]
    /\ ifindex = [n \in AllNets |-> 0]
    /\ netifi = [i \in AllIfs |-> NoIdx]
    /\ ifnet = [i \in AllIfs |-> NoNet]
    /\ linked = [n \in AllNets |-> EmptyDict]
    /\ hasChain = [n \in AllNets |-> FALSE]
    /\ doupdateloop = TRUE
    /\ updatethread = TRUE
    /\ updatelock = "free"
    /\ cmds = <<>>
    /\ updates = <<"wlan">>
    /\ lastTime = [n \in AllNets |-> IF n \in Nets THEN 0 ELSE NoTime]
    /\ wpc = "loop"
    /\ widx = 0
    /\ wnet = NoNet
    /\ slept = 0
    /\ spc = "idle"
    /\ snet = NoNet
    /\ kchain = [n \in AllNets |-> [exists |-> FALSE, rules |-> {}]]
    /\ kjump = [n \in AllNets |-> 0]
    /\ params = [i \in Ifs |-> NoParams]
    /\ hostcmds = <<>>
    /\ calls = <<>>
    /\ ncommit = 0
    /\ sinceCommit = [n \in AllNets |-> NoTime]
    /\ preAttach = NoSnap
    /\ lastCfg = NoCall
    /\ kbridge = [n \in AllNets |-> n \in Nets]
    /\ kmaster = [i \in AllIfs |-> NoNet]
    /\ session = [n \in AllNets |-> TRUE]
    /\ ebtables_lock = "free"
    /\ afile = NoFile
    /\ ifshut = {}
    /\ shut = [n \in AllNets |-> NoShut]
    /\ lastAttach = NoCall
    /\ grebuilt = FALSE
    /\ gretap = NoTap
    /\ tapsMade = 0
    /\ ktaps = {}
    /\ lastAddr = NoCall
    /\ ctrlcfg = NoCfg
    /\ oldbridge = FALSE
    /\ kaddr = {}
    /\ updown = <<>>
    /\ kuplink = FALSE
    /\ lastStart = NoCall
    /\ registered = Nets
    /\ othernet = [i \in AllIfs |-> NoNet]
    /\ kpeer = [i \in AllIfs |-> NoNet]
    /\ tickDue = {}
    /\ linkedlock = [n \in AllNets |-> "free"]
    /\ buildSnap = EmptyDict
    /\ tpc = [t \in Threads |-> "idle"]
    /\ targ = [t \in Threads |-> NoNet]
    /\ tjoin = [t \in Threads |-> 0]
    /\ alive = {1}
    /\ threadobj = 1
    /\ made = 1
    /\ built = [n \in AllNets |-> FALSE]

\* ------------------------------------------------- attach, detach, linked

\* CoreNetworkBase.detach: the interface leaves the adjacency map as a row
\* and as a column
DetachLinked(L, i) == [a \in DOMAIN L \ {i} |-> Del(L[a], i)]

\* CoreNetworkBase.attach: the next index, an empty adjacency row, the
\* back-reference; an interface that is owned is refused
OwnedNever(i) == FALSE
Owned(i) == ifnet[i] # NoNet
BaseAttach(n, i) ==
    /\ ~Owned(i)
    /\ netif' = [netif EXCEPT ![n] = Put(netif[n], ifindex[n], i)]
    /\ netifi' = [netifi EXCEPT ![i] = ifindex[n]]
    /\ ifindex' = [ifindex EXCEPT ![n] = ifindex[n] + 1]
    /\ linked' = [linked EXCEPT ![n] = Put(linked[n], i, EmptyDict)]
    /\ ifnet' = [ifnet EXCEPT ![i] = n]

\* CoreNetworkBase.detach: out of the interface map and the adjacency map
BaseDetach(n, i) ==
    /\ ifnet[i] = n
    /\ CheckAttached(n, i)
    /\ netif' = [netif EXCEPT ![n] = Del(netif[n], netifi[i])]
    /\ netifi' = [netifi EXCEPT ![i] = NoIdx]
    /\ linked' = [linked EXCEPT ![n] = DetachLinked(linked[n], i)]
    /\ ifnet' = [ifnet EXCEPT ![i] = NoNet]

\* CoreNetwork.attach: set_interface_master when up, then the base class
AttachCore(n, i) ==
    /\ spc = "idle"
    /\ ifindex[n] < MaxIfIndex
    /\ kmaster' = IF up[n] THEN [kmaster EXCEPT ![i] = n] ELSE kmaster
    /\ BaseAttach(n, i)
    /\ preAttach' = [net |-> n, if |-> i, used |-> FALSE, netif |-> netif[n],
                     linked |-> linked[n]]
    /\ UNCHANGED <<up, hasChain, queueVars, workerVars, sessVars, kernVars,
                   cfgVars, kbridge, coreExt, calls, ncommit, sinceCommit>>

Attach(n, i) == AttachCore(n, i) /\ UNCHANGED <<lastAttach, lateVars>>

\* CoreNetwork.detach: delete_interface when up, then the base class
Detach(n, i) ==
    /\ spc = "idle"
    /\ BaseDetach(n, i)
    /\ preAttach' = IF preAttach.net = n /\ preAttach.if = i
                    THEN preAttach ELSE Forget(n, {i})
    /\ calls' = IF CallNet = n THEN <<>> ELSE calls
    /\ ncommit' = IF CallNet = n THEN 0 ELSE ncommit
    /\ kmaster' = IF up[n] THEN [kmaster EXCEPT ![i] = NoNet] ELSE kmaster
    /\ UNCHANGED <<up, ifindex, hasChain, queueVars, workerVars, sessVars,
                   kernVars, cfgVars, kbridge, extVars, sinceCommit>>

\* linknet(net) of network n, i the Veth object it creates: attach to this
\* bridge, the far end into the peer's bridge if the peer is up, then the
\* same object into the peer's interface map and adjacency map
LinkNet(n, m, i) ==
    /\ spc = "idle"
    /\ n # m
    /\ ifnet[i] = NoNet
    /\ \A k \in AllNets : i \notin Attached(k)
    /\ ifindex[n] < MaxIfIndex
    /\ ifindex[m] < MaxIfIndex
    /\ kmaster' = IF up[n] THEN [kmaster EXCEPT ![i] = n] ELSE kmaster
    /\ kpeer' = IF up[m] THEN [kpeer EXCEPT ![i] = m] ELSE kpeer
    /\ netif' = [netif EXCEPT ![n] = Put(netif[n], ifindex[n], i),
                              ![m] = Put(netif[m], ifindex[m], i)]
    /\ netifi' = [netifi EXCEPT ![i] = ifindex[n]]
    /\ ifindex' = [ifindex EXCEPT ![n] = ifindex[n] + 1,
                                  ![m] = ifindex[m] + 1]
    /\ linked' = [linked EXCEPT ![n] = Put(linked[n], i, EmptyDict),
                                ![m] = Put(linked[m], i, EmptyDict)]
    /\ ifnet' = [ifnet EXCEPT ![i] = n]
    /\ othernet' = [othernet EXCEPT ![i] = m]
    /\ preAttach' = [net |-> n, if |-> i, used |-> FALSE, netif |-> netif[n],
                     linked |-> linked[n]]
    /\ UNCHANGED <<up, hasChain, queueVars, workerVars, sessVars, kernVars,
                   cfgVars, kbridge, shutVars, greVars, ctrlVars, registered,
                   lastAttach, lateVars, calls, ncommit, sinceCommit>>

LinkNetNext ==
    \/ \E n \in Nets, i \in Ifs : Attach(n, i)
    \/ \E n \in Nets, i \in Ifs : Detach(n, i)
    \/ \E n \in Nets, m \in Nets, i \in PtpIfs : LinkNet(n, m, i)

\* Sessions that attach and detach interfaces and link the two bridges.
SpecLink == Init /\ [][LinkNetNext]_vars

\* what linked(), link() and unlink() need to get past their lookups: both
\* interfaces attached under their recorded index, and a row for netif1
CanLook(n, a, b) ==
    /\ a # b
    /\ CheckAttached(n, a)
    /\ CheckAttached(n, b)
    /\ a \in DOMAIN linked[n]

\* CoreNetwork.linked called on its own
LinkedCall(n, a, b) ==
    /\ spc = "idle"
    /\ CanLook(n, a, b)
    /\ linked' = [linked EXCEPT ![n] = LinkedMap(linked[n], policy(n), a, b)]
    /\ preAttach' = Forget(n, {a, b})
    /\ UNCHANGED <<up, netif, ifindex, netifi, ifnet, hasChain, queueVars,
                   workerVars, sessVars, kernVars, cfgVars, brVars, extVars, calls, ncommit,
                   sinceCommit>>

\* CoreNetwork.link, up to the release of _linked_lock: return when already
\* linked, else write the entry and go on to ebq.ebchange(self)
LinkWrite(n, a, b) ==
    /\ spc = "idle"
    /\ linkedlock[n] = "free"
    /\ CanLook(n, a, b)
    /\ linked' = [linked EXCEPT ![n] = LinkMap(linked[n], policy(n), a, b)]
    /\ LET changed == LinkChanged(linked[n], policy(n), a, b) IN
        /\ spc' = IF changed THEN "mark" ELSE "idle"
        /\ snet' = IF changed THEN n ELSE NoNet
        /\ calls' = Started([op |-> "link", net |-> n, a |-> a, b |-> b,
                             changed |-> changed, ret |-> ~changed])
    /\ ncommit' = 0
    /\ preAttach' = Forget(n, {a, b})
    /\ UNCHANGED <<up, netif, ifindex, netifi, ifnet, hasChain, queueVars,
                   workerVars, kernVars, cfgVars, brVars, extVars, sinceCommit>>

\* CoreNetwork.unlink, up to the release of _linked_lock
UnlinkWrite(n, a, b) ==
    /\ spc = "idle"
    /\ linkedlock[n] = "free"
    /\ CanLook(n, a, b)
    /\ linked' = [linked EXCEPT ![n] = UnlinkMap(linked[n], policy(n), a, b)]
    /\ LET changed == UnlinkChanged(linked[n], policy(n), a, b) IN
        /\ spc' = IF changed THEN "mark" ELSE "idle"
        /\ snet' = IF changed THEN n ELSE NoNet
        /\ calls' = Started([op |-> "unlink", net |-> n, a |-> a, b |-> b,
                             changed |-> changed, ret |-> ~changed])
    /\ ncommit' = 0
    /\ preAttach' = Forget(n, {a, b})
    /\ UNCHANGED <<up, netif, ifindex, netifi, ifnet, hasChain, queueVars,
                   workerVars, kernVars, cfgVars, brVars, extVars, sinceCommit>>

InSeq(s, x) == \E k \in 1..Len(s) : s[k] = x

\* EbtablesQueue.ebchange: the updates list it leaves
EbchangeNever(us, n) == us
EbchangeList(us, n) == IF InSeq(us, n) THEN us ELSE Append(us, n)

\* the tail of link()/unlink(): ebq.ebchange(self), under updatelock
Mark ==
    /\ spc = "mark"
    /\ updatelock = "free"
    /\ updates' = EbchangeList(updates, snet)
    /\ spc' = "idle"
    /\ snet' = NoNet
    /\ calls' = [calls EXCEPT ![Len(calls)].ret = TRUE]
    /\ UNCHANGED <<up, adjVars, hasChain, doupdateloop, updatethread,
                   updatelock, cmds, lastTime, workerVars, kernVars, cfgVars, brVars, extVars,
                   ncommit, sinceCommit, preAttach>>

AdjNext ==
    \/ \E n \in Nets, i \in Ifs : Attach(n, i)
    \/ \E n \in Nets, i \in Ifs : Detach(n, i)
    \/ \E n \in Nets, a \in Ifs, b \in Ifs : LinkedCall(n, a, b)
    \/ \E n \in Nets, a \in Ifs, b \in Ifs : LinkWrite(n, a, b)
    \/ \E n \in Nets, a \in Ifs, b \in Ifs : UnlinkWrite(n, a, b)
    \/ Mark

\* The adjacency operations of one session thread, the worker not scheduled.
SpecAdj == Init /\ [][AdjNext]_vars


\* ------------------------------------------------------ the commit queue

\* the members of a set of interfaces in dict order (taken as ascending)
RECURSIVE SeqOf(_)
SeqOf(S) ==
    IF S = {} THEN <<>>
    ELSE LET m == CHOOSE x \in S : \A y \in S : x <= y
         IN <<m>> \o SeqOf(S \ {m})

\* -A <bridge> -i <in> -o <out> -j <target>
Rule(n, i, o, t) == [op |-> "A", net |-> n, in |-> i, out |-> o, target |-> t]

\* buildcmds(): the rules for one entry of wlan._linked
EntryCmds(n, a, b, v) ==
    IF policy(n) = "DROP" /\ v
    THEN <<Rule(n, a, b, "ACCEPT"), Rule(n, b, a, "ACCEPT")>>
    ELSE IF policy(n) = "ACCEPT" /\ ~v
    THEN <<Rule(n, a, b, "DROP"), Rule(n, b, a, "DROP")>>
    ELSE <<>>

RECURSIVE RowCmds(_, _, _, _)
RowCmds(n, a, row, bs) ==
    IF bs = <<>> THEN <<>>
    ELSE EntryCmds(n, a, Head(bs), row[Head(bs)]) \o RowCmds(n, a, row, Tail(bs))

RECURSIVE MapCmds(_, _, _)
MapCmds(n, L, as) ==
    IF as = <<>> THEN <<>>
    ELSE RowCmds(n, Head(as), L[Head(as)], SeqOf(DOMAIN L[Head(as)]))
         \o MapCmds(n, L, Tail(as))

HeadCmdsNew(n, has) == <<[op |-> "N", net |-> n], [op |-> "J", net |-> n]>>
\* buildcmds(): flush the chain or create it and its FORWARD jump
HeadCmds(n, has) ==
    IF has THEN <<[op |-> "F", net |-> n]>>
    ELSE <<[op |-> "N", net |-> n], [op |-> "J", net |-> n]>>

\* buildcmds(): the commands appended to self.cmds
BuildCmds(n, L, has) == HeadCmds(n, has) \o MapCmds(n, L, SeqOf(DOMAIN L))

\* the kernel's filter table after one ebtables command; ok is FALSE when
\* ebtables rejects it (-N of a chain that exists, any other command on a
\* chain that does not)
ApplyCmd(K, c) ==
    LET ch == K.chain[c.net] IN
    IF c.op = "N" THEN
        IF ch.exists THEN [K EXCEPT !.ok = FALSE]
        ELSE [K EXCEPT !.chain[c.net] = [exists |-> TRUE, rules |-> {}]]
    ELSE IF ~ch.exists THEN [K EXCEPT !.ok = FALSE]
    ELSE IF c.op = "J" THEN [K EXCEPT !.jump[c.net] = @ + 1]
    ELSE IF c.op = "F" THEN [K EXCEPT !.chain[c.net].rules = {}]
    ELSE [K EXCEPT !.chain[c.net].rules = @ \cup {<<c.in, c.out, c.target>>}]

RECURSIVE ApplyCmds(_, _)
ApplyCmds(K, cs) ==
    IF cs = <<>> \/ ~K.ok THEN K
    ELSE ApplyCmds(ApplyCmd(K, Head(cs)), Tail(cs))

\* ebcommit(): --atomic-save, the queued commands against the atomic file,
\* --atomic-commit
Committed == ApplyCmds([ok |-> TRUE, chain |-> kchain, jump |-> kjump], cmds)

\* lastupdate(): whether the elapsed time lets the network be committed
DueAlways(t) == TRUE
Due(t) == t > Rate

\* updated(): the timestamp it leaves
UpdatedTime(t) == 0

\* list.remove(x): the list without the first x
RECURSIVE Remove(_, _)
Remove(s, x) ==
    IF s = <<>> THEN <<>>
    ELSE IF Head(s) = x THEN Tail(s) ELSE <<Head(s)>> \o Remove(Tail(s), x)

Age(t, cap) == IF t = NoTime \/ t >= cap THEN t ELSE t + 1

\* time passes by one unit
Tick ==
    /\ lastTime' = [n \in AllNets |-> Age(lastTime[n], Rate + 1)]
    /\ sinceCommit' = [n \in AllNets |-> Age(sinceCommit[n], Rate + 1)]
    /\ slept' = IF wpc = "sleep" THEN Age(slept, Rate) ELSE slept
    /\ UNCHANGED <<up, adjVars, hasChain, doupdateloop, updatethread,
                   updatelock, cmds, updates, wpc, widx, wnet, sessVars,
                   kernVars, cfgVars, brVars, extVars, calls, ncommit, preAttach>>

\* updateloop(): while self.doupdateloop
WLoop ==
    /\ wpc = "loop"
    /\ wpc' = IF doupdateloop THEN "acq" ELSE "exited"
    /\ UNCHANGED <<up, adjVars, hasChain, queueVars, widx, wnet, slept,
                   sessVars, kernVars, cfgVars, brVars, extVars, histVars>>

\* updateloop(): with self.updatelock, for wlan in self.updates
WAcquire ==
    /\ wpc = "acq"
    /\ updatelock = "free"
    /\ updatelock' = "worker"
    /\ wpc' = "iter"
    /\ widx' = 1
    /\ tickDue' = {n \in AllNets : InSeq(updates, n) /\ session[n]
                                     /\ lastTime[n] # NoTime /\ Due(lastTime[n])}
    /\ UNCHANGED <<up, adjVars, hasChain, doupdateloop, updatethread, cmds,
                   updates, lastTime, wnet, slept, sessVars, kernVars,
                   cfgVars, brVars, coreExt, lastAttach, linkedlock, buildSnap, thrVars, built, histVars>>

\* updateloop(): the iterator is exhausted; release the lock and sleep
WIterEnd ==
    /\ wpc = "iter"
    /\ widx > Len(updates)
    /\ updatelock' = "free"
    /\ wpc' = "sleep"
    /\ slept' = 0
    /\ widx' = 0
    /\ wnet' = NoNet
    /\ tickDue' = {}
    /\ UNCHANGED <<up, adjVars, hasChain, doupdateloop, updatethread, cmds,
                   updates, lastTime, sessVars, kernVars, cfgVars, brVars, coreExt, lastAttach,
                   linkedlock, buildSnap, thrVars, built, histVars>>

\* updateloop(): the next wlan has no session attribute; updated(wlan) and
\* continue, the for loop stepping over the list updated() has shortened
WIterStale ==
    /\ wpc = "iter"
    /\ widx <= Len(updates)
    /\ LET w == updates[widx] IN
        /\ ~session[w]
        /\ lastTime' = [lastTime EXCEPT ![w] = UpdatedTime(lastTime[w])]
        /\ updates' = Remove(updates, w)
    /\ widx' = widx + 1
    /\ UNCHANGED <<up, adjVars, hasChain, doupdateloop, updatethread,
                   updatelock, cmds, wpc, wnet, slept, sessVars, kernVars,
                   cfgVars, brVars, extVars, histVars>>

\* updateloop(): the next wlan; lastupdate(wlan) is not above the rate (a wlan
\* without a timestamp gets one, with no time elapsed)
WIterSkip ==
    /\ wpc = "iter"
    /\ widx <= Len(updates)
    /\ LET w == updates[widx] IN
        /\ session[w]
        /\ lastTime[w] = NoTime \/ ~Due(lastTime[w])
        /\ lastTime' = IF lastTime[w] = NoTime
                       THEN [lastTime EXCEPT ![w] = 0] ELSE lastTime
    /\ widx' = widx + 1
    /\ UNCHANGED <<up, adjVars, hasChain, doupdateloop, updatethread,
                   updatelock, cmds, updates, wpc, wnet, slept, sessVars,
                   kernVars, cfgVars, brVars, extVars, histVars>>

\* updateloop(): the next wlan; lastupdate(wlan) > self.rate
WIterDue ==
    /\ wpc = "iter"
    /\ widx <= Len(updates)
    /\ LET w == updates[widx] IN
        /\ session[w]
        /\ lastTime[w] # NoTime /\ Due(lastTime[w])
        /\ wnet' = w
    /\ wpc' = "build"
    /\ UNCHANGED <<up, adjVars, hasChain, queueVars, widx, slept, sessVars,
                   kernVars, cfgVars, brVars, extVars, histVars>>

\* buildcmds(wlan), under wlan._linked_lock
WBuild ==
    /\ wpc = "build"
    /\ Len(cmds) <= MaxCmds
    /\ cmds' = cmds \o BuildCmds(wnet, linked[wnet], hasChain[wnet])
    /\ hasChain' = [hasChain EXCEPT ![wnet] = TRUE]
    /\ wpc' = "commit"
    /\ built' = [built EXCEPT ![wnet] = TRUE]
    /\ UNCHANGED <<up, adjVars, doupdateloop, updatethread, updatelock,
                   updates, lastTime, widx, wnet, slept, sessVars, kernVars,
                   cfgVars, brVars, coreExt, lastAttach, tickDue, linkedlock,
                   buildSnap, thrVars, histVars>>

\* history: a commit of n; a call in flight falls into the next window
CallsAt(n) == IF n = CallNet /\ InFlight THEN <<LastCall>> ELSE calls
CommitsAt(n) ==
    IF n # CallNet \/ InFlight THEN ncommit
    ELSE IF ncommit >= 2 THEN 2 ELSE ncommit + 1

\* ebcommit(wlan): every host command succeeds
WCommitOk ==
    /\ wpc = "commit"
    /\ Committed.ok
    /\ kchain' = Committed.chain
    /\ kjump' = Committed.jump
    /\ cmds' = <<>>
    /\ wpc' = "updated"
    /\ sinceCommit' = [sinceCommit EXCEPT ![wnet] = 0]
    /\ calls' = CallsAt(wnet)
    /\ ncommit' = CommitsAt(wnet)
    /\ UNCHANGED <<up, adjVars, hasChain, doupdateloop, updatethread,
                   updatelock, updates, lastTime, widx, wnet, slept, sessVars,
                   cfgVars, brVars, extVars, preAttach>>

\* the worker thread ends on an uncaught exception, releasing updatelock
Die ==
    /\ updatelock' = "free"
    /\ wpc' = "dead"
    /\ widx' = 0
    /\ wnet' = NoNet

\* ebcommit(wlan): --atomic-save or a queued command raises CoreCommandError;
\* self.cmds is not yet cleared
WCommitFailCmd ==
    /\ wpc = "commit"
    /\ Die
    /\ UNCHANGED <<up, adjVars, hasChain, doupdateloop, updatethread, cmds,
                   updates, lastTime, slept, sessVars, kernVars, cfgVars, brVars, extVars,
                   histVars>>

\* ebcommit(wlan): --atomic-commit raises CoreCommandError, self.cmds cleared
WCommitFailCommit ==
    /\ wpc = "commit"
    /\ Committed.ok
    /\ cmds' = <<>>
    /\ Die
    /\ UNCHANGED <<up, adjVars, hasChain, doupdateloop, updatethread, updates,
                   lastTime, slept, sessVars, kernVars, cfgVars, brVars, extVars, histVars>>

\* ebcommit(wlan): --atomic-commit is done on this host and host_cmd's
\* distributed.execute then raises
WCommitFailRemote ==
    /\ wpc = "commit"
    /\ Committed.ok
    /\ kchain' = Committed.chain
    /\ kjump' = Committed.jump
    /\ cmds' = <<>>
    /\ Die
    /\ sinceCommit' = [sinceCommit EXCEPT ![wnet] = 0]
    /\ calls' = CallsAt(wnet)
    /\ ncommit' = CommitsAt(wnet)
    /\ UNCHANGED <<up, adjVars, hasChain, doupdateloop, updatethread, updates,
                   lastTime, slept, sessVars, cfgVars, brVars, extVars, preAttach>>

\* updated(wlan), and the for loop's step over the list it has shortened
WUpdated ==
    /\ wpc = "updated"
    /\ lastTime' = [lastTime EXCEPT ![wnet] = UpdatedTime(lastTime[wnet])]
    /\ updates' = Remove(updates, wnet)
    /\ widx' = widx + 1
    /\ wpc' = "iter"
    /\ wnet' = NoNet
    /\ UNCHANGED <<up, adjVars, hasChain, doupdateloop, updatethread,
                   updatelock, cmds, slept, sessVars, kernVars, cfgVars, brVars, extVars,
                   histVars>>

\* time.sleep(self.rate) returns
WWake ==
    /\ wpc = "sleep"
    /\ slept >= Rate
    /\ wpc' = "loop"
    /\ slept' = 0
    /\ UNCHANGED <<up, adjVars, hasChain, queueVars, widx, wnet, sessVars,
                   kernVars, cfgVars, brVars, extVars, histVars>>

Worker ==
    \/ WLoop \/ WAcquire \/ WIterEnd \/ WIterSkip \/ WIterDue \/ WBuild
    \/ WCommitOk \/ WCommitFailCmd \/ WCommitFailCommit \/ WCommitFailRemote
    \/ WUpdated \/ WWake

\* startupdateloop(wlan): the timestamp, under updatelock
StartLock(n) ==
    /\ spc = "idle"
    /\ updatelock = "free"
    /\ lastTime' = [lastTime EXCEPT ![n] = 0]
    /\ spc' = "start"
    /\ snet' = n
    /\ registered' = registered \cup {n}
    /\ UNCHANGED <<up, adjVars, hasChain, doupdateloop, updatethread,
                   updatelock, cmds, updates, workerVars, kernVars, cfgVars,
                   brVars, baseExt, lastAttach, lateVars,
                   histVars>>

\* startupdateloop(wlan): return if the loop runs, else start the thread
StartThread ==
    /\ spc = "start"
    /\ spc' = "idle"
    /\ snet' = NoNet
    /\ IF doupdateloop
       THEN UNCHANGED <<doupdateloop, updatethread, wpc, slept>>
       ELSE /\ doupdateloop' = TRUE
            /\ updatethread' = TRUE
            /\ wpc' = "loop"
            /\ slept' = 0
    /\ UNCHANGED <<up, adjVars, hasChain, updatelock, cmds, updates, lastTime,
                   widx, wnet, kernVars, cfgVars, brVars, extVars, histVars>>

\* stopupdateloop(wlan): drop the timestamp, under updatelock
StopLock(n) ==
    /\ spc = "idle"
    /\ updatelock = "free"
    /\ lastTime' = [lastTime EXCEPT ![n] = NoTime]
    /\ spc' = "stop"
    /\ snet' = n
    /\ registered' = registered \ {n}
    /\ UNCHANGED <<up, adjVars, hasChain, doupdateloop, updatethread,
                   updatelock, cmds, updates, workerVars, kernVars, cfgVars,
                   brVars, baseExt, lastAttach, lateVars,
                   histVars>>

\* stopupdateloop(wlan): return if a timestamp is left, else clear the flag
StopCheck ==
    /\ spc = "stop"
    /\ IF \E m \in AllNets : lastTime[m] # NoTime
       THEN /\ spc' = "idle"
            /\ UNCHANGED doupdateloop
       ELSE /\ doupdateloop' = FALSE
            /\ spc' = IF updatethread THEN "join" ELSE "idle"
    /\ snet' = IF spc' = "idle" THEN NoNet ELSE snet
    /\ UNCHANGED <<up, adjVars, hasChain, updatethread, updatelock, cmds,
                   updates, lastTime, workerVars, kernVars, cfgVars, brVars, extVars, histVars>>

\* stopupdateloop(wlan): self.updatethread.join() returns
StopJoin ==
    /\ spc = "join"
    /\ wpc \in {"exited", "dead"}
    /\ updatethread' = FALSE
    /\ spc' = "idle"
    /\ snet' = NoNet
    /\ UNCHANGED <<up, adjVars, hasChain, doupdateloop, updatelock, cmds,
                   updates, lastTime, workerVars, kernVars, cfgVars, brVars, extVars, histVars>>

\* ebq.ebchange(wlan) called on its own (as WlanNode.startup does)
Ebchange(n) ==
    /\ spc = "idle"
    /\ updatelock = "free"
    /\ updates' = EbchangeList(updates, n)
    /\ UNCHANGED <<up, adjVars, hasChain, doupdateloop, updatethread,
                   updatelock, cmds, lastTime, workerVars, sessVars, kernVars,
                   cfgVars, brVars, extVars, histVars>>

Session ==
    \/ \E n \in Nets, i \in Ifs : Attach(n, i)
    \/ \E n \in Nets, a \in Ifs, b \in Ifs : LinkWrite(n, a, b)
    \/ \E n \in Nets, a \in Ifs, b \in Ifs : UnlinkWrite(n, a, b)
    \/ Mark

Next == Session \/ Worker \/ Tick

\* The same, with the threads scheduled and time passing: the worker thread
\* and a session thread inside link()/unlink() take their next step.
FairSpec ==
    Init /\ [][Next]_vars /\ WF_vars(Worker) /\ WF_vars(Tick) /\ WF_vars(Mark)

SessionReg ==
    \/ \E n \in Nets : Ebchange(n)
    \/ \E n \in Nets : StartLock(n)
    \/ StartThread
    \/ \E n \in Nets : StopLock(n)
    \/ StopCheck
    \/ StopJoin

RegNext == SessionReg \/ Worker \/ Tick

\* The session thread registers, unregisters and marks networks dirty
\* against the worker thread.
SpecReg == Init /\ [][RegNext]_vars

\* One session thread against the worker thread.
Spec == Init /\ [][Next]_vars


\* ------------------------------------------------- startup, point-to-point

\* CoreNetwork.startup: create the bridge, clear the chain flag, set up
Startup(n) ==
    /\ spc = "idle"
    /\ ~up[n]
    /\ kbridge' = [kbridge EXCEPT ![n] = TRUE]
    /\ hasChain' = [hasChain EXCEPT ![n] = FALSE]
    /\ up' = [up EXCEPT ![n] = TRUE]
    /\ shut' = [shut EXCEPT ![n] = NoShut]
    /\ built' = [built EXCEPT ![n] = FALSE]
    /\ UNCHANGED <<adjVars, queueVars, workerVars, sessVars, kernVars, cfgVars,
                   histVars, kmaster, session, ebtables_lock, afile, ifshut,
                   greVars, ctrlVars, vethVars, registered, lastAttach,
                   tickDue, linkedlock, buildSnap, thrVars>>

\* PtpNet.attach: "if len(self._netif) >= 2: raise ValueError"
PtpFullNever(held) == FALSE
PtpFull(held) == held >= 2

\* PtpNet.attach
PtpAttach(i) ==
    LET held == Cardinality(DOMAIN netif["ptp"]) IN
    /\ spc = "idle"
    /\ UNCHANGED lateVars
    /\ lastAttach' = [op |-> "attach", if |-> i, held |-> held,
                      ok |-> ~PtpFull(held)]
    /\ IF PtpFull(held)
       THEN UNCHANGED <<up, adjVars, hasChain, queueVars, workerVars, sessVars,
                        kernVars, cfgVars, histVars, brVars, coreExt>>
       ELSE AttachCore("ptp", i)

PtpNext ==
    \/ Startup("ptp")
    \/ \E i \in PtpIfs : PtpAttach(i)
    \/ \E i \in PtpIfs : Detach("ptp", i)

\* Sessions that start a point-to-point network and attach to and detach
\* from it.
SpecPtp == Init /\ [][PtpNext]_vars

\* PtpNet.linknet(net): CoreNetwork.linknet, whose self.attach(netif) is
\* PtpNet.attach and raises ValueError on a full network before anything is
\* attached
PtpLinkNet(m, i) ==
    /\ ~PtpFull(Cardinality(DOMAIN netif["ptp"]))
    /\ LinkNet("ptp", m, i)

PtpLinkNext ==
    \/ \E i \in PtpIfs : PtpAttach(i)
    \/ \E i \in PtpIfs : Detach("ptp", i)
    \/ \E n \in Nets, i \in PtpIfs : LinkNet(n, "ptp", i)
    \/ \E m \in Nets, i \in PtpIfs : PtpLinkNet(m, i)

\* Sessions that attach to and detach from a point-to-point network and link
\* it with the bridges, from either side.
SpecPtpLink == Init /\ [][PtpLinkNext]_vars

\* ------------------------------------------------------- the adjacency lock

\* buildcmds(wlan): take wlan._linked_lock, set the flag and queue the head
\* of the chain
WBuildLock ==
    /\ wpc = "build"
    /\ Len(cmds) <= MaxCmds
    /\ linkedlock[wnet] = "free"
    /\ linkedlock' = [linkedlock EXCEPT ![wnet] = "worker"]
    /\ buildSnap' = linked[wnet]
    /\ cmds' = cmds \o HeadCmds(wnet, hasChain[wnet])
    /\ hasChain' = [hasChain EXCEPT ![wnet] = TRUE]
    /\ wpc' = "building"
    /\ built' = [built EXCEPT ![wnet] = TRUE]
    /\ UNCHANGED <<up, adjVars, doupdateloop, updatethread, updatelock,
                   updates, lastTime, widx, wnet, slept, sessVars, kernVars,
                   cfgVars, brVars, coreExt, lastAttach, tickDue, thrVars, histVars>>

\* whether a dict of dicts has gained or lost a key
Resized(old, new) ==
    \/ DOMAIN old # DOMAIN new
    \/ \E a \in DOMAIN old : DOMAIN old[a] # DOMAIN new[a]

\* buildcmds(wlan): the two loops over wlan._linked end and the lock is
\* released; a map written during the loops is seen as it was or as it is
WBuildRows(current) ==
    /\ wpc = "building"
    /\ LET L == IF current THEN linked[wnet] ELSE buildSnap IN
        cmds' = cmds \o MapCmds(wnet, L, SeqOf(DOMAIN L))
    /\ linkedlock' = [linkedlock EXCEPT ![wnet] = "free"]
    /\ buildSnap' = EmptyDict
    /\ wpc' = "commit"
    /\ UNCHANGED <<up, adjVars, hasChain, doupdateloop, updatethread,
                   updatelock, updates, lastTime, widx, wnet, slept, sessVars,
                   kernVars, cfgVars, brVars, coreExt, lastAttach, tickDue,
                   thrVars, built, histVars>>

\* buildcmds(wlan): a dict that changed size during the iteration raises
\* RuntimeError; the lock is released and the thread ends
WBuildRaise ==
    /\ wpc = "building"
    /\ Resized(buildSnap, linked[wnet])
    /\ linkedlock' = [linkedlock EXCEPT ![wnet] = "free"]
    /\ buildSnap' = EmptyDict
    /\ Die
    /\ UNCHANGED <<up, adjVars, hasChain, doupdateloop, updatethread, cmds,
                   updates, lastTime, slept, sessVars, kernVars, cfgVars,
                   brVars, coreExt, lastAttach, tickDue, thrVars, built, histVars>>

\* attach and detach, taken to write the adjacency map under the lock
AttachLocked(n, i) == linkedlock[n] = "free" /\ Attach(n, i)
DetachLocked(n, i) == linkedlock[n] = "free" /\ Detach(n, i)

WorkerLock ==
    \/ WLoop \/ WAcquire \/ WIterEnd \/ WIterSkip \/ WIterDue
    \/ WBuildLock \/ (\E current \in BOOLEAN : WBuildRows(current))
    \/ WBuildRaise \/ WCommitOk \/ WUpdated \/ WWake

\* the network whose adjacency map is written and built
LockNets == {"wlan"}

LockNext ==
    \/ \E n \in LockNets, i \in Ifs : AttachLocked(n, i)
    \/ \E n \in LockNets, i \in Ifs : DetachLocked(n, i)
    \/ \E n \in LockNets, a \in Ifs, b \in Ifs : LinkedCall(n, a, b)
    \/ \E n \in LockNets, a \in Ifs, b \in Ifs : LinkWrite(n, a, b)
    \/ \E n \in LockNets, a \in Ifs, b \in Ifs : UnlinkWrite(n, a, b)
    \/ Mark
    \/ WorkerLock
    \/ Tick

\* A session thread that attaches, looks up and links interfaces against a
\* worker whose chain build is two steps long.
SpecLock == Init /\ [][LockNext]_vars

\* ------------------------------------------------- several session threads

\* what a step of start/stopupdateloop leaves alone besides the queue
ThreadKeeps ==
    <<up, adjVars, hasChain, updatelock, cmds, updates, widx, wnet, slept,
      sessVars, kernVars, cfgVars, brVars, baseExt, lastAttach, tickDue,
      linkedlock, buildSnap, built, histVars>>

\* startupdateloop(wlan) on thread t: the timestamp, under updatelock
TStartLock(t, n) ==
    /\ tpc[t] = "idle"
    /\ updatelock = "free"
    /\ lastTime' = [lastTime EXCEPT ![n] = 0]
    /\ registered' = registered \cup {n}
    /\ tpc' = [tpc EXCEPT ![t] = "r_check"]
    /\ targ' = [targ EXCEPT ![t] = n]
    /\ UNCHANGED <<doupdateloop, updatethread, wpc, tjoin, alive, threadobj,
                   made, ThreadKeeps>>

\* startupdateloop(): "if self.doupdateloop: return"
TStartCheck(t) ==
    /\ tpc[t] = "r_check"
    /\ tpc' = [tpc EXCEPT ![t] = IF doupdateloop THEN "idle" ELSE "r_set"]
    /\ targ' = [targ EXCEPT ![t] = IF doupdateloop THEN NoNet ELSE @]
    /\ UNCHANGED <<doupdateloop, updatethread, lastTime, registered, wpc,
                   tjoin, alive, threadobj, made, ThreadKeeps>>

\* startupdateloop(): self.doupdateloop = True
TStartSet(t) ==
    /\ tpc[t] = "r_set"
    /\ doupdateloop' = TRUE
    /\ tpc' = [tpc EXCEPT ![t] = "r_start"]
    /\ UNCHANGED <<updatethread, lastTime, registered, wpc, targ, tjoin,
                   alive, threadobj, made, ThreadKeeps>>

\* startupdateloop(): a new Thread is stored in self.updatethread and started
TStartThread(t) ==
    /\ tpc[t] = "r_start"
    /\ made < MaxWorkers
    /\ made' = made + 1
    /\ threadobj' = made + 1
    /\ updatethread' = TRUE
    /\ alive' = alive \cup {made + 1}
    /\ tpc' = [tpc EXCEPT ![t] = "idle"]
    /\ targ' = [targ EXCEPT ![t] = NoNet]
    /\ UNCHANGED <<doupdateloop, lastTime, registered, wpc, tjoin,
                   ThreadKeeps>>

\* stopupdateloop(wlan) on thread t: drop the timestamp, under updatelock
TStopLock(t, n) ==
    /\ tpc[t] = "idle"
    /\ updatelock = "free"
    /\ lastTime' = [lastTime EXCEPT ![n] = NoTime]
    /\ registered' = registered \ {n}
    /\ tpc' = [tpc EXCEPT ![t] = "u_check"]
    /\ targ' = [targ EXCEPT ![t] = n]
    /\ UNCHANGED <<doupdateloop, updatethread, wpc, tjoin, alive, threadobj,
                   made, ThreadKeeps>>

\* stopupdateloop(): "if len(self.last_update_time) > 0: return"
TStopCheck(t) ==
    /\ tpc[t] = "u_check"
    /\ LET left == \E m \in AllNets : lastTime[m] # NoTime IN
        /\ tpc' = [tpc EXCEPT ![t] = IF left THEN "idle" ELSE "u_clear"]
        /\ targ' = [targ EXCEPT ![t] = IF left THEN NoNet ELSE @]
    /\ UNCHANGED <<doupdateloop, updatethread, lastTime, registered, wpc,
                   tjoin, alive, threadobj, made, ThreadKeeps>>

\* stopupdateloop(): self.doupdateloop = False
TStopClear(t) ==
    /\ tpc[t] = "u_clear"
    /\ doupdateloop' = FALSE
    /\ tpc' = [tpc EXCEPT ![t] = "u_ref"]
    /\ UNCHANGED <<updatethread, lastTime, registered, wpc, targ, tjoin,
                   alive, threadobj, made, ThreadKeeps>>

\* stopupdateloop(): "if self.updatethread:", and the object join() is
\* called on
TStopRef(t) ==
    /\ tpc[t] = "u_ref"
    /\ tpc' = [tpc EXCEPT ![t] = IF threadobj = 0 THEN "idle" ELSE "u_join"]
    /\ targ' = [targ EXCEPT ![t] = IF threadobj = 0 THEN NoNet ELSE @]
    /\ tjoin' = [tjoin EXCEPT ![t] = threadobj]
    /\ UNCHANGED <<doupdateloop, updatethread, lastTime, registered, wpc,
                   alive, threadobj, made, ThreadKeeps>>

\* stopupdateloop(): join() returns once that thread has ended, then
\* self.updatethread = None
TStopJoin(t) ==
    /\ tpc[t] = "u_join"
    /\ tjoin[t] \notin alive
    /\ threadobj' = 0
    /\ updatethread' = FALSE
    /\ tpc' = [tpc EXCEPT ![t] = "idle"]
    /\ targ' = [targ EXCEPT ![t] = NoNet]
    /\ tjoin' = [tjoin EXCEPT ![t] = 0]
    /\ UNCHANGED <<doupdateloop, lastTime, registered, wpc, alive, made,
                   ThreadKeeps>>

\* updateloop() on thread w: "while self.doupdateloop" is false and the
\* thread ends (its passes over self.updates are left out here)
WorkerExit(w) ==
    /\ w \in alive
    /\ ~doupdateloop
    /\ alive' = alive \ {w}
    /\ wpc' = IF w = 1 THEN "exited" ELSE wpc
    /\ UNCHANGED <<doupdateloop, updatethread, lastTime, registered, tpc,
                   targ, tjoin, threadobj, made, ThreadKeeps>>

ThreadStep(t) ==
    \/ \E n \in Nets : TStartLock(t, n)
    \/ TStartCheck(t)
    \/ TStartSet(t)
    \/ TStartThread(t)
    \/ \E n \in Nets : TStopLock(t, n)
    \/ TStopCheck(t)
    \/ TStopClear(t)
    \/ TStopRef(t)
    \/ TStopJoin(t)

ThreadsNext ==
    \/ \E t \in Threads : ThreadStep(t)
    \/ \E w \in 1..MaxWorkers : WorkerExit(w)

\* Session threads that register and unregister networks, and the worker
\* threads they start and stop.
SpecThreads == Init /\ [][ThreadsNext]_vars

\* the same, every thread taking its next step
FairThreads ==
    /\ SpecThreads
    /\ \A t \in Threads :
        WF_vars(TStartCheck(t) \/ TStartSet(t) \/ TStartThread(t)
                \/ TStopCheck(t) \/ TStopClear(t) \/ TStopRef(t)
                \/ TStopJoin(t))
    /\ \A w \in 1..MaxWorkers : WF_vars(WorkerExit(w))

\* ---------------------------------------------------------------- shutdown

\* what a shutdown step leaves alone besides its own variables
ShutKeeps ==
    <<cfgVars, histVars, greVars, ctrlVars, vethVars, lastAttach, lateVars,
    afile>>

\* shutdown(): up, and stopupdateloop(self) drops the timestamp under
\* updatelock
ShutBegin(n) ==
    /\ spc = "idle"
    /\ up[n]
    /\ updatelock = "free"
    /\ lastTime' = [lastTime EXCEPT ![n] = NoTime]
    /\ registered' = registered \ {n}
    /\ shut' = [shut EXCEPT ![n] = [NoShut EXCEPT !.state = "running"]]
    /\ spc' = "sd_stop"
    /\ snet' = n
    /\ UNCHANGED <<up, adjVars, hasChain, doupdateloop, updatethread,
                   updatelock, cmds, updates, workerVars, kernVars, brVars,
                   session, ebtables_lock, ifshut, ShutKeeps>>

\* stopupdateloop(): return if a timestamp is left, else clear the flag
ShutStopCheck ==
    /\ spc = "sd_stop"
    /\ IF \E m \in AllNets : lastTime[m] # NoTime
       THEN /\ spc' = "sd_bridge"
            /\ UNCHANGED doupdateloop
       ELSE /\ doupdateloop' = FALSE
            /\ spc' = IF updatethread THEN "sd_join" ELSE "sd_bridge"
    /\ UNCHANGED <<up, adjVars, hasChain, updatethread, updatelock, cmds,
                   updates, lastTime, workerVars, snet, kernVars, brVars,
                   shutVars, registered, ShutKeeps>>

\* stopupdateloop(): self.updatethread.join() returns
ShutJoin ==
    /\ spc = "sd_join"
    /\ wpc \in {"exited", "dead"}
    /\ updatethread' = FALSE
    /\ spc' = "sd_bridge"
    /\ UNCHANGED <<up, adjVars, hasChain, doupdateloop, updatelock, cmds,
                   updates, lastTime, workerVars, snet, kernVars, brVars,
                   shutVars, registered, ShutKeeps>>

\* shutdown(): delete_bridge; when it raises CoreCommandError the except
\* clause is entered and the rest of the try block is skipped
ShutBridge(ok) ==
    /\ spc = "sd_bridge"
    /\ shut' = [shut EXCEPT ![snet].brfail = ~ok, ![snet].had = hasChain[snet]]
    /\ IF ok
       THEN /\ kbridge' = [kbridge EXCEPT ![snet] = FALSE]
            /\ kmaster' = [i \in AllIfs |->
                             IF kmaster[i] = snet THEN NoNet ELSE kmaster[i]]
            /\ spc' = IF hasChain[snet] THEN "sd_eb" ELSE "sd_clear"
       ELSE /\ spc' = "sd_clear"
            /\ UNCHANGED brVars
    /\ UNCHANGED <<up, adjVars, hasChain, queueVars, workerVars, snet,
                   kernVars, session, ebtables_lock, ifshut, registered,
                   ShutKeeps>>

\* ebtablescmds(): with ebtables_lock
ShutEbLock ==
    /\ spc = "sd_eb"
    /\ ebtables_lock = "free"
    /\ ebtables_lock' = "session"
    /\ spc' = "sd_D"
    /\ UNCHANGED <<up, adjVars, hasChain, queueVars, workerVars, snet,
                   kernVars, brVars, session, ifshut, shut, registered,
                   ShutKeeps>>

\* ebtablescmds(): ebtables -D FORWARD ... -j <bridge>; with no such jump it
\* fails, the lock is released and the exception is caught by shutdown()
ShutEbD ==
    /\ spc = "sd_D"
    /\ shut' = [shut EXCEPT ![snet].ebcmds = @ + 1]
    /\ IF kjump[snet] > 0
       THEN /\ kjump' = [kjump EXCEPT ![snet] = @ - 1]
            /\ spc' = "sd_X"
            /\ UNCHANGED ebtables_lock
       ELSE /\ ebtables_lock' = "free"
            /\ spc' = "sd_clear"
            /\ UNCHANGED kjump
    /\ UNCHANGED <<up, adjVars, hasChain, queueVars, workerVars, snet, kchain,
                   brVars, session, ifshut, registered, ShutKeeps>>

\* ebtablescmds(): ebtables -X <bridge>, which fails on a chain that does not
\* exist or is still jumped to; the lock is released either way
ShutEbX ==
    /\ spc = "sd_X"
    /\ shut' = [shut EXCEPT ![snet].ebcmds = @ + 1]
    /\ kchain' = IF kchain[snet].exists /\ kjump[snet] = 0
                 THEN [kchain EXCEPT ![snet] = [exists |-> FALSE, rules |-> {}]]
                 ELSE kchain
    /\ ebtables_lock' = "free"
    /\ spc' = "sd_clear"
    /\ UNCHANGED <<up, adjVars, hasChain, queueVars, workerVars, snet, kjump,
                   brVars, session, ifshut, registered, ShutKeeps>>

\* shutdown(): netif.shutdown() for every interface, both maps cleared,
\* del self.session, up = False
ShutClear ==
    /\ spc = "sd_clear"
    /\ ifshut' = ifshut \cup Attached(snet)
    /\ netif' = [netif EXCEPT ![snet] = EmptyDict]
    /\ linked' = [linked EXCEPT ![snet] = EmptyDict]
    /\ session' = [session EXCEPT ![snet] = FALSE]
    /\ up' = [up EXCEPT ![snet] = FALSE]
    /\ shut' = [shut EXCEPT ![snet].state = "done"]
    /\ spc' = "idle"
    /\ snet' = NoNet
    /\ UNCHANGED <<ifindex, netifi, ifnet, hasChain, queueVars, workerVars,
                   kernVars, brVars, ebtables_lock, registered, ShutKeeps>>

Shutdown ==
    \/ \E n \in Nets : ShutBegin(n)
    \/ ShutStopCheck
    \/ ShutJoin
    \/ \E ok \in BOOLEAN : ShutBridge(ok)
    \/ ShutEbLock
    \/ ShutEbD
    \/ ShutEbX
    \/ ShutClear

\* ebcommit(): --atomic-save copies the kernel table into the atomic file
WSave ==
    /\ wpc = "commit"
    /\ afile' = [saved |-> TRUE, chain |-> kchain, jump |-> kjump]
    /\ wpc' = "saved"
    /\ UNCHANGED <<up, adjVars, hasChain, queueVars, widx, wnet, slept,
                   sessVars, kernVars, cfgVars, brVars, session, ebtables_lock,
                   ifshut, shut, greVars, ctrlVars, vethVars, registered,
                   lastAttach, lateVars,
                   histVars>>

\* ebcommit(): the queued commands against the atomic file
Edited == ApplyCmds([ok |-> TRUE, chain |-> afile.chain, jump |-> afile.jump], cmds)

\* ebcommit(): the edits succeed and --atomic-commit replaces the kernel
\* table with the atomic file
WFileCommit ==
    /\ wpc = "saved"
    /\ Edited.ok
    /\ kchain' = Edited.chain
    /\ kjump' = Edited.jump
    /\ cmds' = <<>>
    /\ afile' = NoFile
    /\ wpc' = "updated"
    /\ sinceCommit' = [sinceCommit EXCEPT ![wnet] = 0]
    /\ calls' = CallsAt(wnet)
    /\ ncommit' = CommitsAt(wnet)
    /\ UNCHANGED <<up, adjVars, hasChain, doupdateloop, updatethread,
                   updatelock, updates, lastTime, widx, wnet, slept, sessVars,
                   cfgVars, brVars, session, ebtables_lock, ifshut, shut,
                   greVars, ctrlVars, vethVars, registered, lastAttach,
                   lateVars, preAttach>>

\* ebcommit(): a queued command raises CoreCommandError against the atomic
\* file; the thread ends, self.cmds is not cleared
WFileFail ==
    /\ wpc = "saved"
    /\ Die
    /\ UNCHANGED <<up, adjVars, hasChain, doupdateloop, updatethread, cmds,
                   updates, lastTime, slept, sessVars, kernVars, cfgVars, brVars,
                   extVars, histVars>>

WorkerShut ==
    \/ WLoop \/ WAcquire \/ WIterEnd \/ WIterStale \/ WIterSkip \/ WIterDue
    \/ WBuild \/ WSave \/ WFileCommit \/ WFileFail \/ WUpdated \/ WWake

ShutNext ==
    \/ \E n \in Nets : Ebchange(n)
    \/ \E n \in Nets : Startup(n)
    \/ Shutdown
    \/ WorkerShut
    \/ Tick

\* A session thread that marks networks dirty, shuts them down and starts
\* them again, against the worker thread.
SpecShut == Init /\ [][ShutNext]_vars

\* --------------------------------------------------------- GRE tap bridge

\* the GreTap object the next GreTap(...) call makes
NewTap == NumIfs + 2 + tapsMade

\* GreTap(...): the object, and its device in the kernel
MakeTap ==
    /\ tapsMade < MaxTaps
    /\ gretap' = NewTap
    /\ tapsMade' = tapsMade + 1
    /\ ktaps' = ktaps \cup {NewTap}

\* self.attach(tap) on the GRE tap bridge: set_interface_master when isup,
\* then the base class, which refuses an interface that is owned
GreAttach(tap, isup) ==
    /\ kmaster' = IF isup THEN [kmaster EXCEPT ![tap] = "gre"] ELSE kmaster
    /\ IF ~Owned(tap)
       THEN /\ BaseAttach("gre", tap)
            /\ preAttach' = [net |-> "gre", if |-> tap, used |-> FALSE,
                             netif |-> netif["gre"], linked |-> linked["gre"]]
       ELSE UNCHANGED <<adjVars, preAttach>>

\* GreTapBridge.startup: CoreNetwork.startup, then attach the tap if any
GreStartupWith(tap) ==
    /\ kbridge' = [kbridge EXCEPT !["gre"] = TRUE]
    /\ hasChain' = [hasChain EXCEPT !["gre"] = FALSE]
    /\ up' = [up EXCEPT !["gre"] = TRUE]
    /\ IF tap = NoTap THEN UNCHANGED <<adjVars, kmaster, preAttach>>
       ELSE GreAttach(tap, TRUE)

\* GreTapBridge.__init__(remoteip, start)
GreNew(remote, start) ==
    /\ spc = "idle"
    /\ ~grebuilt
    /\ grebuilt' = TRUE
    /\ IF remote THEN MakeTap ELSE UNCHANGED <<gretap, tapsMade, ktaps>>
    /\ IF start THEN GreStartupWith(IF remote THEN NewTap ELSE NoTap)
       ELSE UNCHANGED <<up, hasChain, kbridge, kmaster, adjVars, preAttach>>
    /\ UNCHANGED <<queueVars, workerVars, sessVars, kernVars, cfgVars, calls,
                   ncommit, sinceCommit, shutVars, registered, lastAddr,
                   ctrlVars, vethVars, lastAttach, lateVars>>

GreStartup ==
    /\ spc = "idle"
    /\ grebuilt
    /\ ~up["gre"]
    /\ GreStartupWith(gretap)
    /\ UNCHANGED <<queueVars, workerVars, sessVars, kernVars, cfgVars, calls,
                   ncommit, sinceCommit, extVars>>

\* addrconfig(): "if self.gretap: raise ValueError"
GreHasTapNever(t) == FALSE
GreHasTap(t) == t # NoTap

\* GreTapBridge.addrconfig(addrlist), addrlist of length len; addrlist[0] of
\* an empty list raises IndexError
GreAddrconfig(len) ==
    /\ spc = "idle"
    /\ grebuilt
    /\ LET ok == ~GreHasTap(gretap) /\ len > 0 IN
        /\ lastAddr' = [op |-> "addrconfig", ok |-> ok, had |-> gretap,
                        wasup |-> up["gre"],
                        earlier |-> lastAddr.op = "addrconfig"
                                    /\ (lastAddr.ok \/ lastAddr.earlier)]
        /\ IF ok
           THEN /\ MakeTap
                /\ GreAttach(NewTap, up["gre"])
                /\ UNCHANGED <<up, hasChain, kbridge>>
           ELSE UNCHANGED <<up, hasChain, adjVars, brVars, preAttach, gretap,
                            tapsMade, ktaps>>
    /\ UNCHANGED <<queueVars, workerVars, sessVars, kernVars, cfgVars, calls,
                   ncommit, sinceCommit, shutVars, registered, grebuilt,
                   ctrlVars, vethVars, lastAttach, lateVars>>

GreNext ==
    \/ \E remote \in BOOLEAN, start \in BOOLEAN : GreNew(remote, start)
    \/ GreStartup
    \/ \E len \in 0..2 : GreAddrconfig(len)
    \/ \E i \in Ifs : Attach("gre", i)
    \/ \E i \in Ifs : Detach("gre", i)

\* Sessions that build a GRE tap bridge, start it, give it addresses and
\* attach interfaces to it.
SpecGre == Init /\ [][GreNext]_vars

\* -------------------------------------------------------- control network

HostIds == {None, 0, 1}

\* CtrlNet.__init__ with start=False: the four settings are kept
CtrlNew(hostid, assign, script, serverintf) ==
    /\ spc = "idle"
    /\ ~ctrlcfg.built
    /\ ctrlcfg' = [built |-> TRUE, hostid |-> hostid, assign_address |-> assign,
                   updown_script |-> script, serverintf |-> serverintf]
    /\ UNCHANGED <<up, adjVars, hasChain, queueVars, workerVars, sessVars,
                   kernVars, cfgVars, histVars, brVars, shutVars,
                   registered, greVars, vethVars, oldbridge, kaddr, updown, kuplink, lastStart,
                   lastAttach, lateVars>>

\* another session creates or removes its bridge for the same node id
OldBridge(b) ==
    /\ oldbridge # b
    /\ oldbridge' = b
    /\ UNCHANGED <<up, adjVars, hasChain, queueVars, workerVars, sessVars,
                   kernVars, cfgVars, histVars, brVars, shutVars,
                   registered, greVars, vethVars, ctrlcfg, kaddr, updown, kuplink, lastStart,
                   lastAttach, lateVars>>

\* net_client.existing_bridges(self.id): any bridge b.<id>.*, this session's
\* own bridge included
ExistingNever(own, old) == FALSE
ExistingBridges(own, old) == own \/ old

\* the prefix index add_addresses is called with
AddrIndex(c) == IF c.hostid # None /\ c.hostid # 0 THEN c.hostid ELSE -2

\* CtrlNet.startup
CtrlStartup ==
    LET existing == ExistingBridges(kbridge["ctrl"], oldbridge) IN
    /\ spc = "idle"
    /\ ctrlcfg.built
    /\ session["ctrl"]
    /\ ctrlcfg.updown_script => Len(updown) < MaxScript
    /\ lastStart' = [op |-> "startup", ok |-> ~existing, wasup |-> up["ctrl"]]
    /\ IF existing
       THEN UNCHANGED <<up, hasChain, brVars, kaddr, updown, kuplink>>
       ELSE /\ kbridge' = [kbridge EXCEPT !["ctrl"] = TRUE]
            /\ hasChain' = [hasChain EXCEPT !["ctrl"] = FALSE]
            /\ up' = [up EXCEPT !["ctrl"] = TRUE]
            /\ kaddr' = IF ctrlcfg.assign_address
                        THEN kaddr \cup {AddrIndex(ctrlcfg)} ELSE kaddr
            /\ updown' = IF ctrlcfg.updown_script
                         THEN Append(updown, "startup") ELSE updown
            /\ kuplink' = (kuplink \/ ctrlcfg.serverintf)
            /\ UNCHANGED kmaster
    /\ UNCHANGED <<adjVars, queueVars, workerVars, sessVars, kernVars, cfgVars,
                   histVars, shutVars, registered, greVars, vethVars,
                   ctrlcfg,
                   oldbridge, lastAttach, lateVars>>

\* CtrlNet.shutdown: the uplink is released and the up/down script is run
\* before CoreNetwork.shutdown looks at self.up. host_cmd runs the command on
\* this host and then reads self.session, which a completed shutdown has
\* deleted: the AttributeError is not a CoreCommandError and leaves
\* shutdown(). ifok, brok: delete_interface and delete_bridge succeed.
\* stopupdateloop(self) finds no timestamp of the control network and returns
\* while other networks are registered.
CtrlShutdown(ifok, brok) ==
    LET nosess == ~session["ctrl"]
        uplinkCmd == ctrlcfg.serverintf
        uplinkRaises == uplinkCmd /\ nosess
        scriptCmd == ctrlcfg.updown_script /\ ~uplinkRaises
        scriptRaises == scriptCmd /\ nosess
        raised == uplinkRaises \/ scriptRaises
        base == ~raised /\ up["ctrl"]
        gone == base /\ brok
        jumps == IF gone /\ hasChain["ctrl"] /\ kjump["ctrl"] > 0
                 THEN kjump["ctrl"] - 1 ELSE kjump["ctrl"]
    IN
    /\ spc = "idle"
    /\ ctrlcfg.built
    /\ scriptCmd => Len(updown) < MaxScript
    /\ \E n \in AllNets \ {"ctrl"} : lastTime[n] # NoTime
    /\ lastStart' = [op |-> "shutdown", ok |-> ~raised, wasup |-> up["ctrl"]]
    /\ kuplink' = IF uplinkCmd /\ ifok THEN FALSE ELSE kuplink
    /\ updown' = IF scriptCmd THEN Append(updown, "shutdown") ELSE updown
    /\ kbridge' = IF gone THEN [kbridge EXCEPT !["ctrl"] = FALSE] ELSE kbridge
    /\ kmaster' = IF gone
                  THEN [i \in AllIfs |->
                          IF kmaster[i] = "ctrl" THEN NoNet ELSE kmaster[i]]
                  ELSE kmaster
    /\ kjump' = [kjump EXCEPT !["ctrl"] = jumps]
    /\ kchain' = IF /\ gone /\ hasChain["ctrl"] /\ kjump["ctrl"] > 0
                    /\ kchain["ctrl"].exists /\ jumps = 0
                 THEN [kchain EXCEPT !["ctrl"] = [exists |-> FALSE, rules |-> {}]]
                 ELSE kchain
    /\ ifshut' = IF base THEN ifshut \cup Attached("ctrl") ELSE ifshut
    /\ netif' = IF base THEN [netif EXCEPT !["ctrl"] = EmptyDict] ELSE netif
    /\ linked' = IF base THEN [linked EXCEPT !["ctrl"] = EmptyDict] ELSE linked
    /\ session' = IF base THEN [session EXCEPT !["ctrl"] = FALSE] ELSE session
    /\ up' = IF base THEN [up EXCEPT !["ctrl"] = FALSE] ELSE up
    /\ UNCHANGED <<ifindex, netifi, ifnet, hasChain, queueVars, workerVars,
                   sessVars, cfgVars, histVars, ebtables_lock, afile, shut,
                   greVars, ctrlcfg, oldbridge, kaddr, vethVars, registered,
                   lastAttach, lateVars>>

CtrlNext ==
    \/ \E h \in HostIds, a \in BOOLEAN, sc \in BOOLEAN, sv \in BOOLEAN :
          CtrlNew(h, a, sc, sv)
    \/ \E b \in BOOLEAN : OldBridge(b)
    \/ CtrlStartup
    \/ \E ifok \in BOOLEAN, brok \in BOOLEAN : CtrlShutdown(ifok, brok)

\* Sessions that build a control network and start it, while bridges of other
\* sessions come and go.
SpecCtrl == Init /\ [][CtrlNext]_vars

\* ------------------------------------------------------------ linkconfig

\* the network and the interface whose link is configured (linkconfig reads
\* self.up and reads and writes the parameter cache of its netif only)
CfgNets == {"wlan", "gre"}
CfgIfs == {1}
OptKeys == {"bw", "delay", "loss", "duplicate", "jitter"}
OptVals == {None} \cup (0..MaxVal)
\* LinkOptions: bandwidth, delay, per, dup, jitter
Options == [OptKeys -> OptVals]

\* CoreInterface.setparam: true only when the value differs from the cached
\* one; the cache is updated
SetParamChanged(P, k, v) == P[k] # v
SetParam(P, k, v) == [P EXCEPT ![k] = v]
\* CoreInterface.getparam
GetParam(P, k) == P[k]
Truthy(f) == f = "True"
\* "x is None or x <= 0"
CheckAlways(v) == TRUE
Check(v) == v = None \/ v <= 0

\* linkconfig(): "if not changed: return"
EarlyReturnNever(changed) == FALSE
EarlyReturn(changed) == ~changed

\* the netem statement: delay and jitter as given, loss and duplicate when > 0
Netem(o) ==
    [delay |-> IF o.delay = None /\ o.jitter # None THEN 0 ELSE o.delay,
     jitter |-> o.jitter,
     loss |-> IF Check(o.loss) THEN None ELSE o.loss,
     duplicate |-> IF Check(o.duplicate) THEN None ELSE o.duplicate]

\* linkconfig(): the token bucket filter part. "bw / 1000" and "bw > 0" raise
\* TypeError when setparam accepted a bandwidth of None.
TbfPart(P, isup, o) ==
    LET took == SetParamChanged(P, "bw", o.bw)
        P1 == SetParam(P, "bw", o.bw)
    IN IF ~took THEN [P |-> P1, cmds |-> <<>>, changed |-> FALSE, raised |-> FALSE]
       ELSE IF o.bw = None
       THEN [P |-> P1, cmds |-> <<>>, changed |-> FALSE, raised |-> TRUE]
       ELSE IF o.bw > 0
       THEN [P |-> SetParam(P1, "has_tbf", "True"),
             cmds |-> IF isup THEN <<[op |-> "replace", parent |-> "root",
                                      what |-> "tbf", bw |-> o.bw]>>
                      ELSE <<>>,
             changed |-> TRUE, raised |-> FALSE]
       ELSE IF Truthy(GetParam(P1, "has_tbf"))
       THEN [P |-> SetParam(SetParam(P1, "has_tbf", "False"), "has_netem", "False"),
             cmds |-> IF isup THEN <<[op |-> "delete", parent |-> "root"]>>
                      ELSE <<>>,
             changed |-> TRUE, raised |-> FALSE]
       ELSE [P |-> P1, cmds |-> <<>>, changed |-> FALSE, raised |-> FALSE]

\* linkconfig(): the parent handle of the netem statement,
\* 'if netif.getparam("has_tbf"): parent = "parent 1:1"'
ParentRoot(P) == "root"
Parent(P) == IF Truthy(GetParam(P, "has_tbf")) THEN "parent 1:1" ELSE "root"

\* linkconfig(): the netem part, after the token bucket filter part t
NetemPart(t, isup, o) ==
    LET parent == Parent(t.P)
        changed == \/ t.changed
                   \/ SetParamChanged(t.P, "delay", o.delay)
                   \/ SetParamChanged(t.P, "loss", o.loss)
                   \/ SetParamChanged(t.P, "duplicate", o.duplicate)
                   \/ SetParamChanged(t.P, "jitter", o.jitter)
        P2 == SetParam(SetParam(SetParam(SetParam(t.P, "delay", o.delay),
                  "loss", o.loss), "duplicate", o.duplicate), "jitter", o.jitter)
    IN IF EarlyReturn(changed) THEN [P |-> P2, cmds |-> t.cmds]
       ELSE IF Check(o.delay) /\ Check(o.jitter) /\ Check(o.loss) /\ Check(o.duplicate)
       THEN IF ~Truthy(GetParam(P2, "has_netem")) THEN [P |-> P2, cmds |-> t.cmds]
            ELSE [P |-> SetParam(P2, "has_netem", "False"),
                  cmds |-> IF isup
                           THEN t.cmds \o <<[op |-> "delete", parent |-> parent,
                                             what |-> "handle 10:"]>>
                           ELSE t.cmds]
       ELSE [P |-> SetParam(P2, "has_netem", "True"),
             cmds |-> IF isup
                      THEN t.cmds \o <<[op |-> "replace", parent |-> parent,
                                        what |-> Netem(o)]>>
                      ELSE t.cmds]

\* linkconfig(): the cache it leaves and the host commands it issues
LinkConfigResult(P, isup, o) ==
    LET t == TbfPart(P, isup, o)
    IN IF t.raised THEN [P |-> t.P, cmds |-> t.cmds] ELSE NetemPart(t, isup, o)

\* every option is given and positive
AllPositive(o) == \A k \in OptKeys : o[k] # None /\ o[k] > 0
NoWant == [k \in OptKeys |-> None]

\* the options equal the cached values
SameAsCache(P, o) == \A k \in OptKeys : P[k] = o[k]

\* CoreNetwork.linkconfig(netif, options)
LinkConfig(n, i, o) ==
    /\ spc = "idle"
    /\ LET r == LinkConfigResult(params[i], up[n], o) IN
        /\ params' = [params EXCEPT ![i] = r.P]
        /\ hostcmds' = r.cmds
        /\ lastCfg' = [op |-> "linkconfig", net |-> n, if |-> i,
                       same |-> SameAsCache(params[i], o),
                       kept |-> r.P = params[i],
                       want |-> IF AllPositive(o) THEN o ELSE NoWant]
    /\ UNCHANGED <<up, adjVars, hasChain, queueVars, workerVars, sessVars,
                   kernVars, histVars, brVars, extVars>>

CfgNext == \E n \in CfgNets, i \in CfgIfs, o \in Options : LinkConfig(n, i, o)

\* Sessions that only configure links.
SpecCfg == Init /\ [][CfgNext]_vars

\* ------------------------------------------------------------- properties

Pairs(n) == {p \in Attached(n) \X Attached(n) : p[1] # p[2]}
Read(n, a, b) == LinkedValue(linked[n], policy(n), a, b)
HasRule(n, a, b, t) == <<a, b, t>> \in kchain[n].rules
RuleBetween(n, a, b, t) == HasRule(n, a, b, t) \/ HasRule(n, b, a, t)
Registered(n) == lastTime[n] # NoTime
\* the latest call has returned and its network was committed since
CommittedAfterCall == calls # <<>> /\ LastCall.ret /\ ncommit >= 1

\* C1: after link(a,b) has returned on an up, registered network and the
\* worker has then committed that network, linked(a,b) is true, a DROP
\* network's chain holds the accept rules a->b and b->a, and an ACCEPT
\* network's chain holds no drop rule between a and b.
C1_LinkThenCommit ==
    (CommittedAfterCall /\ LastCall.op = "link" /\ up[CallNet]
        /\ Registered(CallNet)) =>
    LET n == CallNet
        a == LastCall.a
        b == LastCall.b
    IN /\ Read(n, a, b)
       /\ policy(n) = "DROP" =>
            HasRule(n, a, b, "ACCEPT") /\ HasRule(n, b, a, "ACCEPT")
       /\ policy(n) = "ACCEPT" => ~RuleBetween(n, a, b, "DROP")

\* C2: after unlink(a,b) has returned on a DROP network and the worker has
\* then committed that network, the chain holds no accept rule between a
\* and b in either direction.
C2_UnlinkThenCommit ==
    (CommittedAfterCall /\ LastCall.op = "unlink" /\ policy(CallNet) = "DROP")
        => ~RuleBetween(CallNet, LastCall.a, LastCall.b, "ACCEPT")

\* C3: the adjacency map is symmetric: linked(a,b) = linked(b,a) for all
\* interfaces a, b attached to the same network.
C3_Symmetric ==
    \A n \in Nets : \A p \in Pairs(n) : Read(n, p[1], p[2]) = Read(n, p[2], p[1])


\* the rules buildcmds() emits for an adjacency map
RulesOfMap(n, L) ==
    LET cs == MapCmds(n, L, SeqOf(DOMAIN L))
    IN {<<cs[k].in, cs[k].out, cs[k].target>> : k \in 1..Len(cs)}
Dirty(n) == InSeq(updates, n)
\* not dirty, and no link()/unlink() between its write and its ebchange
Quiescent(n) == ~Dirty(n) /\ ~(spc = "mark" /\ snet = n)
Synced(n) == Quiescent(n) => kchain[n].rules = RulesOfMap(n, linked[n])

\* C4: no adjacency change is lost: a network that is neither dirty nor about
\* to be marked dirty has the rules of its current adjacency map in the
\* kernel, and a dirty network is eventually committed and leaves the dirty
\* set, unless the worker thread has ended.
C4_NoChangeLost ==
    /\ [](\A n \in Nets : Synced(n))
    /\ \A n \in Nets : Dirty(n) ~> (wpc = "dead" \/ ~Dirty(n))
C4_Witness ==
    /\ CommittedAfterCall /\ LastCall.changed
    /\ Quiescent(CallNet)
    /\ kchain[CallNet].rules # {}

\* the latest two calls are link(a,b) then unlink(a,b), both since the
\* commit before them, and both have returned
LinkThenUnlink ==
    /\ Len(calls) = 2
    /\ calls[1].op = "link" /\ calls[2].op = "unlink"
    /\ calls[1].a = calls[2].a /\ calls[1].b = calls[2].b
    /\ calls[2].ret
UnlinkThenLink ==
    /\ Len(calls) = 2
    /\ calls[1].op = "unlink" /\ calls[2].op = "link"
    /\ calls[1].a = calls[2].a /\ calls[1].b = calls[2].b
    /\ calls[2].ret

\* C5: link(a,b) then unlink(a,b) on a DROP network between two of its
\* commits cause one commit, whose chain has no accept rule between a and b.
C5_Coalesced ==
    (LinkThenUnlink /\ policy(CallNet) = "DROP") =>
        /\ ncommit <= 1
        /\ ncommit = 1 => ~RuleBetween(CallNet, LastCall.a, LastCall.b, "ACCEPT")
\* the part of C5 that counts the commits
C5_OneCommit == (LinkThenUnlink /\ policy(CallNet) = "DROP") => ncommit <= 1

\* C6: a network is only committed when more than the rate has passed since
\* its previous atomic commit.
C6_Throttle ==
    wpc = "commit" => sinceCommit[wnet] \in {NoTime, Rate + 1}
C6_Witness ==
    wpc = "commit" /\ sinceCommit[wnet] = Rate + 1

\* C7: link(a,b) when linked(a,b) is true, and unlink(a,b) when it is false,
\* return at once: every pair reads as before and ebchange is not reached.
C7_NoOp ==
    [][\A n \in Nets, a \in Ifs, b \in Ifs :
        (\/ LinkWrite(n, a, b) /\ Read(n, a, b)
         \/ UnlinkWrite(n, a, b) /\ ~Read(n, a, b))
        => /\ Reads(linked'[n], policy(n)) = Reads(linked[n], policy(n))
           /\ updates' = updates
           /\ spc' = "idle"]_vars
C7_Witness ==
    /\ Len(calls) = 2 /\ calls[1].op = "link" /\ calls[2].op = "link"
    /\ calls[1].a = calls[2].a /\ calls[1].b = calls[2].b
    /\ calls[1].changed /\ ~calls[2].changed /\ calls[2].ret

\* C8: link(a,b) then unlink(a,b) leaves linked(a,b) false, unlink(a,b) then
\* link(a,b) leaves it true, and when the pair read that way before the two
\* calls every pair reads as before.
C8_Inverse ==
    /\ \A n \in Nets : \A p \in Pairs(n) :
        LET L == linked[n]
            pol == policy(n)
            a == p[1]
            b == p[2]
            LU == UnlinkMap(LinkMap(L, pol, a, b), pol, a, b)
            UL == LinkMap(UnlinkMap(L, pol, a, b), pol, a, b)
        IN /\ ~LinkedValue(LU, pol, a, b)
           /\ LinkedValue(UL, pol, a, b)
           /\ ~LinkedValue(L, pol, a, b) => Reads(LU, pol) = Reads(L, pol)
           /\ LinkedValue(L, pol, a, b) => Reads(UL, pol) = Reads(L, pol)
    /\ LinkThenUnlink => ~Read(CallNet, LastCall.a, LastCall.b)
    /\ UnlinkThenLink => Read(CallNet, LastCall.a, LastCall.b)
C8_Witness ==
    /\ LinkThenUnlink /\ calls[1].changed /\ calls[2].changed
    /\ ~Read(CallNet, LastCall.a, LastCall.b)

\* C9: every adjacency entry is between attached interfaces, and after
\* attach(iface), calls that involve iface, and detach(iface), the interface
\* map and the adjacency map are what they were before the attach.
C9_AttachDetach ==
    /\ \A n \in Nets :
        /\ DOMAIN linked[n] \subseteq Attached(n)
        /\ \A a \in DOMAIN linked[n] : DOMAIN linked[n][a] \subseteq Attached(n)
    /\ (preAttach.net # NoNet /\ ifnet[preAttach.if] = NoNet) =>
        /\ netif[preAttach.net] = preAttach.netif
        /\ linked[preAttach.net] = preAttach.linked
C9_Witness ==
    /\ preAttach.net # NoNet /\ ifnet[preAttach.if] = NoNet
    /\ preAttach.used
    /\ Attached(preAttach.net) # {}

\* C10: a linkconfig call whose five options equal the cached values issues
\* no host command and leaves the parameter cache as it was.
C10_Unchanged ==
    (lastCfg.op = "linkconfig" /\ lastCfg.same) =>
        /\ lastCfg.kept
        /\ hostcmds = <<>>
C10_Witness ==
    /\ lastCfg.op = "linkconfig" /\ lastCfg.same
    /\ params[lastCfg.if].has_tbf = "True"
    /\ params[lastCfg.if].has_netem = "True"
    /\ params[lastCfg.if].delay > 0
    /\ hostcmds = <<>>

\* C11: after linkconfig with positive bandwidth, delay, loss, duplicate and
\* jitter the cache holds the requested values and has_tbf and has_netem are
\* true, whatever was cached before and whether or not the network is up.
C11_CacheAfterUpdate ==
    (lastCfg.op = "linkconfig" /\ lastCfg.want # NoWant) =>
        /\ \A k \in OptKeys : params[lastCfg.if][k] = lastCfg.want[k]
        /\ params[lastCfg.if].has_tbf = "True"
        /\ params[lastCfg.if].has_netem = "True"
C11_Witness ==
    /\ lastCfg.op = "linkconfig" /\ lastCfg.want # NoWant
    /\ ~lastCfg.kept /\ ~up[lastCfg.net]
    /\ params[lastCfg.if] = [k \in DOMAIN NoParams |->
            IF k \in OptKeys THEN lastCfg.want[k] ELSE "True"]
    /\ hostcmds = <<>>

\* C12: attach on a point-to-point network that holds two interfaces fails,
\* enslaves no interface to the bridge and leaves the interface map and the
\* adjacency map as they were; with fewer than two held, attach of a free
\* interface succeeds.
C12_PtpCapacity ==
    [][\A i \in PtpIfs : PtpAttach(i) =>
        IF Cardinality(DOMAIN netif["ptp"]) >= 2
        THEN /\ ~lastAttach'.ok
             /\ UNCHANGED <<netif, netifi, ifnet, linked, kmaster>>
        ELSE /\ lastAttach'.ok
             /\ ifnet'[i] = "ptp"
             /\ \E k \in DOMAIN netif'["ptp"] : netif'["ptp"][k] = i]_vars
C12_Witness ==
    /\ lastAttach.op = "attach" /\ ~lastAttach.ok /\ lastAttach.held = 2
    /\ up["ptp"]
    /\ Cardinality(Attached("ptp")) = 2
    /\ ifnet[lastAttach.if] = NoNet

\* C13: addrconfig on a GRE tap bridge that owns a tap fails, creates no
\* device and leaves the tap and the interface map as they were; a call that
\* succeeds was made with no tap owned and leaves the bridge owning one.
C13_AddrconfigOnce ==
    [][\A len \in 0..2 : GreAddrconfig(len) =>
        /\ gretap # NoTap =>
            /\ ~lastAddr'.ok
            /\ UNCHANGED <<gretap, tapsMade, ktaps, netif, netifi, ifnet,
                           linked, kmaster>>
        /\ lastAddr'.ok =>
            /\ gretap = NoTap /\ gretap' # NoTap
            /\ ktaps' = ktaps \cup {gretap'}]_vars
C13_Witness ==
    /\ lastAddr.op = "addrconfig" /\ ~lastAddr.ok /\ lastAddr.had # NoTap
    /\ lastAddr.earlier
    /\ gretap = lastAddr.had /\ ktaps = {gretap} /\ Attached("gre") = {gretap}
\* the same for a tap made at construction
C13_WitnessBuilt ==
    /\ lastAddr.op = "addrconfig" /\ ~lastAddr.ok /\ lastAddr.had # NoTap
    /\ ~lastAddr.earlier
    /\ gretap = lastAddr.had /\ ktaps = {gretap}

\* C14: CtrlNet.startup called while a bridge b.<id>.* exists fails before
\* it changes anything: no bridge is created, no address assigned, the
\* up/down script is not invoked, no uplink attached, and up stays as it was.
C14_StartupConflict ==
    [][(CtrlStartup /\ (kbridge["ctrl"] \/ oldbridge)) =>
        /\ ~lastStart'.ok
        /\ UNCHANGED <<up, hasChain, kbridge, kmaster, kaddr, updown, kuplink,
                       netif, linked>>]_vars
C14_Witness ==
    /\ lastStart.op = "startup" /\ ~lastStart.ok /\ ~lastStart.wasup
    /\ oldbridge /\ ~up["ctrl"] /\ ~kbridge["ctrl"]
    /\ ctrlcfg.assign_address /\ ctrlcfg.updown_script /\ ctrlcfg.serverintf
    /\ kaddr = {} /\ updown = <<>> /\ ~kuplink

\* C17: once stopupdateloop(net) has returned, net has no timestamp; and
\* once every network that was registered is unregistered, the timestamp map
\* is empty, the run flag is false and the worker thread has ended.
C17_Unregister ==
    spc = "idle" =>
        /\ \A n \in Nets : n \notin registered => lastTime[n] = NoTime
        /\ registered = {} =>
            /\ \A n \in AllNets : lastTime[n] = NoTime
            /\ ~doupdateloop
            /\ wpc \in {"exited", "dead"}
\* the part of C17 that is about the network stopupdateloop was called with
C17_NoTimestamp ==
    spc = "idle" => \A n \in Nets : n \notin registered => lastTime[n] = NoTime
\* the part of C17 that is about the last deregistration
C17_Stopped ==
    (spc = "idle" /\ registered = {}) => (~doupdateloop /\ wpc \in {"exited", "dead"})

\* C15: outside the worker's build-and-commit of a network, its
\* has_ebtables_chain flag is true exactly when the kernel has its chain.
C15_FlagIsChain ==
    \A n \in Nets :
        (wnet # n \/ wpc \notin {"commit", "saved"}) =>
            (hasChain[n] <=> kchain[n].exists)

\* the shutdown path of C15 alone: a network that was shut down and whose
\* chain is gone has the flag cleared
C15_AfterShutdown ==
    \A n \in Nets :
        (shut[n].state = "done" /\ ~kchain[n].exists) => ~hasChain[n]

\* C16: once shutdown(net) has deregistered net, the worker neither builds
\* nor commits for net.
C16_Cancelled ==
    [][(WBuild \/ WSave \/ WFileCommit) => shut[wnet].state = "no"]_vars
\* C16, its last part: after shutdown(net) has returned the kernel has no
\* chain for net
C16_NoChainAfterShutdown ==
    \A n \in Nets : shut[n].state = "done" => ~kchain[n].exists

\* C18: no chain-removal command of a shutdown runs between the worker's
\* --atomic-save and its --atomic-commit.
C18_NoInterleave ==
    [][(ShutEbD \/ ShutEbX) => wpc # "saved"]_vars
\* C18, the mutex itself: between --atomic-save and --atomic-commit the
\* worker holds ebtables_lock
C18_CommitUnderMutex == wpc = "saved" => ebtables_lock = "worker"
\* what the interleaving does: a chain that shutdown removed is not brought
\* back by a commit
C18_NoResurrection ==
    [][WFileCommit => \A n \in Nets : (kchain'[n].exists /\ n # wnet) => kchain[n].exists]_vars

\* C20: a shutdown whose bridge delete failed has still issued the two
\* chain-removal commands if the flag was set, shut the interfaces down,
\* cleared both maps and set up to false.
C20_BestEffort ==
    \A n \in Nets :
        (shut[n].state = "done" /\ shut[n].brfail) =>
            /\ shut[n].had => shut[n].ebcmds = 2
            /\ netif[n] = EmptyDict /\ linked[n] = EmptyDict
            /\ ~up[n]
\* C20 without the chain removal: the steps after the try block are done
C20_AfterTry ==
    \A n \in Nets :
        shut[n].state = "done" =>
            (netif[n] = EmptyDict /\ linked[n] = EmptyDict /\ ~up[n] /\ ~session[n])

\* C19: every interface in a network's interface map has that network as
\* its back-reference, and is in no other network's interface map.
C19_OneOwner ==
    \A n \in Nets : \A i \in Attached(n) :
        /\ ifnet[i] = n
        /\ \A m \in Nets \ {n} : i \notin Attached(m)
\* C19 for the interfaces that linknet did not create
C19_Plain ==
    \A n \in Nets : \A i \in Attached(n) :
        othernet[i] = NoNet =>
            /\ ifnet[i] = n
            /\ \A m \in Nets \ {n} : i \notin Attached(m)

\* C21: when the worker's pass over self.updates ends, no network that was
\* dirty and due when the pass began is still in the dirty list.
C21_AllDueCommitted ==
    [][WIterEnd => \A n \in tickDue : ~InSeq(updates, n)]_vars
\* C22: the worker does not hold updatelock while ebcommit runs its host
\* commands.
C22_LockFreeInCommit == wpc = "commit" => updatelock # "worker"
\* C22, what follows from it: ebchange, startupdateloop and stopupdateloop
\* can take updatelock while ebcommit runs
C22_SessionNotBlocked ==
    (wpc = "commit" /\ spc = "idle") =>
        \A n \in Nets : ENABLED Ebchange(n)

\* C23: while buildcmds holds a network's _linked_lock and iterates over its
\* adjacency map, the map does not change.
C23_MapStable ==
    [][wpc = "building" => linked'[wnet] = linked[wnet]]_vars
\* C23 for link() and unlink(), which take the lock
C23_LinkUnderLock ==
    [][(\E n \in LockNets, a \in Ifs, b \in Ifs :
            LinkWrite(n, a, b) \/ UnlinkWrite(n, a, b))
        => (wpc = "building" => linked'[wnet] = linked[wnet])]_vars

\* C24: at most one updateloop thread is alive.
C24_OneWorker == Cardinality(alive) <= 1

\* C25: when no start/stopupdateloop call is in progress and a network is
\* registered, the run flag is set and a worker thread is alive.
C25_RegisteredRuns ==
    ((\A t \in Threads : tpc[t] = "idle") /\ registered # {}) =>
        (doupdateloop /\ alive # {})
\* C25, its last part: a stopupdateloop call that waits in join() returns
C25_JoinReturns ==
    \A t \in Threads : (tpc[t] = "u_join") ~> (tpc[t] = "idle")

\* C26: the commands ebcommit applies are exactly those buildcmds has just
\* built for the network being committed.
C26_ExactlyBuilt ==
    wpc = "commit" =>
        cmds \in {BuildCmds(wnet, linked[wnet], h) : h \in BOOLEAN}
\* C26, its last part: self.cmds is empty when a commit is over, also when
\* it ended by an exception
C26_EmptyAtEnd == wpc \in {"updated", "dead"} => cmds = <<>>

\* C27: the first chain build after a network's startup emits the new-chain
\* and FORWARD-jump commands, every later build emits a flush instead, and
\* the kernel never has more than one FORWARD jump for a bridge.
C27_OneJump ==
    /\ [](\A n \in Nets : kjump[n] <= 1)
    /\ [][WBuild =>
            LET first == cmds'[Len(cmds) + 1] IN
            IF built[wnet] THEN first.op = "F"
            ELSE /\ first.op = "N"
                 /\ cmds'[Len(cmds) + 2].op = "J"]_vars
C27_Witness ==
    /\ wpc = "commit" /\ cmds # <<>> /\ cmds[1].op = "F"
    /\ built[wnet] /\ up[wnet] /\ shut[wnet].state = "no"
    /\ kjump[wnet] = 1 /\ kchain[wnet].exists

\* C28: every netem command of a linkconfig call (the replace and the delete
\* of "handle 10:") names parent 1:1 exactly when has_tbf is true on the
\* interface when the command is built, and root otherwise; and a call that
\* changes the bandwidth to a value <= 0 while has_tbf is true sets has_tbf
\* to False, deletes the root queueing discipline first (on a network that is
\* up), and leaves has_netem true only when the same call goes on to install
\* a netem statement again, which it then does at root.
IsNetemCmd(c) == "what" \in DOMAIN c /\ "bw" \notin DOMAIN c
NetemCmds == {k \in 1..Len(hostcmds) : IsNetemCmd(hostcmds[k])}
AllChecks(P) ==
    Check(P.delay) /\ Check(P.jitter) /\ Check(P.loss) /\ Check(P.duplicate)
TbfDropped(i) ==
    /\ lastCfg'.op = "linkconfig" /\ lastCfg'.if = i
    /\ params[i].has_tbf = "True"
    /\ params'[i].bw # params[i].bw
    /\ params'[i].bw # None /\ params'[i].bw <= 0
C28_ParentHandle ==
    /\ [](lastCfg.op = "linkconfig" =>
            \A k \in NetemCmds :
                hostcmds[k].parent =
                    IF params[lastCfg.if].has_tbf = "True" THEN "parent 1:1"
                    ELSE "root")
    /\ [][\A i \in CfgIfs : TbfDropped(i) =>
            /\ params'[i].has_tbf = "False"
            /\ up[lastCfg'.net] =>
                    /\ hostcmds' # <<>>
                    /\ hostcmds'[1] = [op |-> "delete", parent |-> "root"]
            /\ params'[i].has_netem = IF AllChecks(params'[i]) THEN "False"
                                      ELSE "True"
            /\ \A k \in 1..Len(hostcmds') :
                    IsNetemCmd(hostcmds'[k]) =>
                        /\ hostcmds'[k].op = "replace"
                        /\ hostcmds'[k].parent = "root"]_vars
\* a netem statement was installed below the token bucket filter
C28_WitnessChild ==
    /\ lastCfg.op = "linkconfig" /\ up[lastCfg.net]
    /\ params[lastCfg.if].has_tbf = "True"
    /\ Len(hostcmds) = 2
    /\ hostcmds[1].parent = "root" /\ hostcmds[2].parent = "parent 1:1"
    /\ hostcmds[2].op = "replace"
\* the token bucket filter was deleted and netem installed again at root
C28_Witness ==
    /\ lastCfg.op = "linkconfig" /\ up[lastCfg.net]
    /\ params[lastCfg.if].has_tbf = "False"
    /\ params[lastCfg.if].has_netem = "True"
    /\ params[lastCfg.if].bw = 0
    /\ Len(hostcmds) = 2
    /\ hostcmds[1] = [op |-> "delete", parent |-> "root"]
    /\ hostcmds[2].op = "replace" /\ hostcmds[2].parent = "root"
\* a netem delete below the token bucket filter
C28_WitnessDelete ==
    /\ lastCfg.op = "linkconfig" /\ up[lastCfg.net]
    /\ params[lastCfg.if].has_tbf = "True"
    /\ \E k \in NetemCmds : /\ hostcmds[k].op = "delete"
                             /\ hostcmds[k].parent = "parent 1:1"

\* C29: while the run flag (doupdateloop) is set the worker thread is running:
\* neither a failed host command of a chain commit nor a shutdown of the
\* network between the worker's stale check and its commit ends the thread.
C29_WorkerSurvives == doupdateloop => wpc # "dead"
\* C29, the consequence: a network that is marked dirty while the run flag is
\* set is not left dirty by a thread that has ended.
C29_DirtyServed ==
    \A n \in Nets : (doupdateloop /\ InSeq(updates, n) /\ session[n]) => wpc # "dead"

\* C30: shutdown() of a control network that is not up issues no host
\* command and changes nothing: the uplink stays as it is and the up/down
\* script is not invoked, whatever the network was configured with.
C30_NotUpNoop ==
    [][(~up["ctrl"] /\ \E ifok, brok \in BOOLEAN : CtrlShutdown(ifok, brok)) =>
        UNCHANGED <<up, updown, kuplink, kbridge, kmaster, kaddr, netif,
                    linked, session>>]_vars
\* C30, the consequence: a shutdown after a completed shutdown returns
\* normally
C30_SecondReturns ==
    (lastStart.op = "shutdown" /\ ~lastStart.wasup) => lastStart.ok
\* an up control network with no script and no uplink: the second shutdown
\* is reached
C30_PlainSecond ==
    /\ lastStart.op = "shutdown" /\ ~lastStart.wasup /\ lastStart.ok
    /\ ~session["ctrl"] /\ ~ctrlcfg.updown_script /\ ~ctrlcfg.serverintf

\* C31: the interface map of the point-to-point network never holds more
\* than two interfaces, whatever attach, detach and linknet calls were made,
\* linknet calls of another network with the point-to-point network as the
\* peer included.
C31_AtMostTwo == Cardinality(DOMAIN netif["ptp"]) <= 2
\* C31 for the calls made on the point-to-point network itself: attach and
\* its own linknet never take it from two interfaces to three
C31_OwnCalls ==
    [][((\E i \in PtpIfs : PtpAttach(i)) \/
        (\E m \in Nets, i \in PtpIfs : PtpLinkNet(m, i))) =>
            (Cardinality(DOMAIN netif["ptp"]) >= 2 => UNCHANGED netif)]_vars

\* C32: the tap of the GRE tap bridge is at no more than one index of the
\* bridge's interface map, however the bridge was built (with or without a
\* remote address, started or not) and in whatever order addrconfig and
\* startup were called; and a bridge that is up and owns a tap has the tap
\* in its interface map.
TapIndexes(t) == {k \in DOMAIN netif["gre"] : netif["gre"][k] = t}
C32_TapOnce ==
    /\ \A t \in TapIds : Cardinality(TapIndexes(t)) <= 1
    /\ (up["gre"] /\ gretap # NoTap) => Cardinality(TapIndexes(gretap)) = 1
\* addrconfig made and attached the tap on a bridge that was not up, and
\* startup, which attaches the tap, came after it
C32_Witness ==
    /\ lastAddr.op = "addrconfig" /\ lastAddr.ok /\ ~lastAddr.wasup
    /\ up["gre"] /\ gretap # NoTap /\ kmaster[gretap] = "gre"
    /\ Cardinality(TapIndexes(gretap)) = 1
\* a tap made at construction and attached by a later startup
C32_WitnessRemote ==
    /\ lastAddr.op = "none" /\ up["gre"] /\ gretap # NoTap
    /\ kmaster[gretap] = "gre" /\ Cardinality(TapIndexes(gretap)) = 1
    /\ Cardinality(Attached("gre")) = 2 /\ netifi[gretap] = 1

=============================================================================
